---- MODULE Spec2Model ----
(***************************************************************************)
(* A model of runestick's shared cells (crates/runestick/src/shared.rs)    *)
(* and of the stored select built over them (crates/runestick/src/         *)
(* select.rs).                                                             *)
(*                                                                         *)
(* A cell is a SharedBox {access, count, data}.  Handles (Shared<T>) and   *)
(* guards (BorrowRef, BorrowMut, OwnedRef, OwnedMut) are the objects the   *)
(* program holds; the model keeps them next to the box so that properties  *)
(* can relate what the access field says to the guards that are really     *)
(* alive.                                                                  *)
(*                                                                         *)
(* The Access type (crate::access) is not part of the sources at hand; it  *)
(* is modelled from the specification's data model: free, N shared         *)
(* readers, or one exclusive writer, plus a taken bit.                     *)
(***************************************************************************)
EXTENDS Integers, FiniteSets, Sequences, TLC

\* ------------------------------------------------------------------ bounds
NCells == 2
MaxHandles == 3
MaxGuards == 2
MaxVal == 1
MaxTime == 2
MaxVer == 2
MaxId == 1
MaxTokens == 6
MaxShort == 4
MaxSteps == 2
MaxStack == 3
MaxFrames == 2
MaxChars == 3

Cells == 1..NCells
Values == 0..MaxVal

\* A handle (a Shared<T> value) is told from the other handles of its cell only
\* by the guards that borrow it: refs BorrowRef<'_> and muts BorrowMut<'_>
\* guards made from it are alive.
Descs == {d \in [refs : 0..MaxGuards, muts : 0..MaxGuards] : d.refs + d.muts <= MaxGuards}

Idle == [refs |-> 0, muts |-> 0]

VARIABLES
    access,      \* SharedBox.access of every cell
    count,       \* SharedBox.count of every cell (strong references)
    data,        \* SharedBox.data of every cell (the interior)
    disposal,    \* per cell: whether the box was made, and how often it was freed,
                 \* its interior dropped, its interior moved out
    handles,     \* per cell, the live Shared<T> values: how many of each description
    owned,       \* per cell, the live OwnedRef / OwnedMut guards the program holds
    last,        \* the last operation, its outcome and what was alive before it
    fault,       \* "none", or the abort / panic the process ended with
    ready,       \* per cell, seen as a future: "pending", ready with "ok" or "err", "done"
    selState,    \* the stored Select: "none", "new", "pending", "resolved", "dropped"
    selBranches, \* the tagged branches the Select was built over
    selFutures,  \* the branches still in the Select's FuturesUnordered
    selOut,      \* what polls of the Select have returned as Ready, in order
    now,         \* the file system's clock, in units of modification time
    source,      \* the entry file: the version of its text, whether that text
                 \* compiles, its modification time
    cached,      \* the bytecode file beside it: absent, a unit or unreadable bytes,
                 \* and its modification time
    run,         \* the rune-cli run in progress: where get_or_build_unit is and
                 \* what it has seen and done
    exec,        \* the rune-cli run after the unit is there: where main is, the
                 \* VmExecution it drives and what came of it
    comp,        \* the compile of one expression: the expression, the needs, the
                 \* compiler before and after
    par,         \* the parse of one node: the tokens, the node asked for, the
                 \* result, and what resolving the node gave
    vm,          \* the halted Vm given to dump_stack: its operand stack, its
                 \* call frames, and what the dump printed
    esc          \* the text of one byte-string literal between b" and ", as
                 \* characters, and the bytes resolving it gave

vars == <<access, count, data, disposal, handles, owned, last, fault,
          ready, selState, selBranches, selFutures, selOut,
          now, source, cached, run, exec, comp, par, vm, esc>>

\* The state of the runtime (shared cells and the select).
rtVars == <<access, count, data, disposal, handles, owned, last, fault,
            ready, selState, selBranches, selFutures, selOut>>

\* The state of the command line tool.
cliVars == <<now, source, cached, run, exec>>

\* What the operations of the runtime leave alone.
\* The state of the compiler.
compVars == <<comp>>

\* The state of the parser.
parVars == <<par>>

\* The state of the stack dump.
vmVars == <<vm>>

\* The state of the resolving of a literal's text.
escVars == <<esc>>

toolVars == <<cliVars, compVars, parVars, vmVars, escVars>>

boxVars == <<access, count, data, disposal>>
selVars == <<ready, selState, selBranches, selFutures, selOut>>

\* ------------------------------------------------------- Access (crate::access)
AccessNew == [readers |-> 0, writer |-> FALSE, taken |-> FALSE]

is_shared(a) == ~a.writer /\ ~a.taken

is_exclusive(a) == a.readers = 0 /\ ~a.writer /\ ~a.taken

is_taken(a) == a.taken

shared(a) ==
    IF a.writer \/ a.taken
    THEN [ok |-> FALSE, access |-> a]
    ELSE [ok |-> TRUE, access |-> [a EXCEPT !.readers = @ + 1]]

exclusive(a) ==
    IF a.readers # 0 \/ a.writer \/ a.taken
    THEN [ok |-> FALSE, access |-> a]
    ELSE [ok |-> TRUE, access |-> [a EXCEPT !.writer = TRUE]]

take_access(a) ==
    IF a.readers # 0 \/ a.writer \/ a.taken
    THEN [ok |-> FALSE, access |-> a]
    ELSE [ok |-> TRUE, access |-> [a EXCEPT !.taken = TRUE]]

release_shared(a) == [a EXCEPT !.readers = @ - 1]

release_exclusive(a) == [a EXCEPT !.writer = FALSE]

\* The drop of the guard Access::take returned
release_take(a) == [a EXCEPT !.taken = FALSE]

\* ------------------------------------------------------------ program objects
RECURSIVE Sum(_, _)
Sum(f, S) ==
    IF S = {} THEN 0
    ELSE LET x == CHOOSE y \in S : TRUE IN f[x] + Sum(f, S \ {x})

\* The descriptions of the handles cell c has.
Present(c) == {d \in Descs : handles[c][d] > 0}

NHandles(c) == Sum(handles[c], Present(c))

TotalHandles == Sum([c \in Cells |-> NHandles(c)], Cells)

\* The guards that are really alive on a cell.
BorrowRefs(c) == Sum([d \in Descs |-> handles[c][d] * d.refs], Present(c))

BorrowMuts(c) == Sum([d \in Descs |-> handles[c][d] * d.muts], Present(c))

SelectGuards(c) == {b \in selFutures : b.cell = c}

NShared(c) == BorrowRefs(c) + owned[c].refs

NExclusive(c) == BorrowMuts(c) + owned[c].muts + Cardinality(SelectGuards(c))

\* The guards the program holds (those of the Select not counted).
TotalGuards ==
    Sum([c \in Cells |-> BorrowRefs(c) + BorrowMuts(c) + owned[c].refs + owned[c].muts], Cells)

HasHandle(c, d) == handles[c][d] > 0

\* A BorrowRef<'_> / BorrowMut<'_> borrows the handle it was made from: the
\* handle can neither be dropped nor moved while such a guard is alive.
Borrowed(d) == d # Idle

\* One handle of cell c described by d is now described by d2.
Redescribe(c, d, d2) ==
    [handles EXCEPT ![c] = [x \in Descs |->
        handles[c][x] - (IF x = d THEN 1 ELSE 0) + (IF x = d2 THEN 1 ELSE 0)]]

Without(c, d) == [handles EXCEPT ![c][d] = @ - 1]

Moved(c) == disposal[c].moved > 0

\* What a read of the interior yields: the data, or anything at all once the
\* interior has been moved out or dropped.
Garbage == MaxVal + 1

ReadInterior(c) ==
    IF disposal[c].moved > 0 \/ disposal[c].dropped > 0
    THEN Values \cup {Garbage}
    ELSE {data[c]}

Op(name, c, ok, v) ==
    [op |-> name, cell |-> c, ok |-> ok, value |-> v, err |-> "none",
     preShared |-> NShared(c), preExclusive |-> NExclusive(c), preTaken |-> Moved(c)]

\* An operation that returned the error err.
OpErr(name, c, err) == [Op(name, c, FALSE, 0) EXCEPT !.err = err]

Running == fault = "none"

\* ---------------------------------------------------------------- SharedBox
\* An inc that leaves the count as it is.
inc_keeps(cnt) ==
    IF cnt = 0
    THEN [count |-> cnt, fault |-> "abort"]
    ELSE [count |-> cnt, fault |-> "none"]

\* SharedBox::inc: the new count, or the abort of the process.
inc(cnt) ==
    IF cnt = 0
    THEN [count |-> cnt, fault |-> "abort"]
    ELSE [count |-> cnt + 1, fault |-> "none"]

\* A dec that drops the interior of a taken cell too.
dec_drops_taken(cnt, disp, acc) ==
    IF cnt = 0
    THEN [count |-> cnt, disposal |-> disp, fault |-> "abort"]
    ELSE IF cnt - 1 # 0
    THEN [count |-> cnt - 1, disposal |-> disp, fault |-> "none"]
    ELSE [count |-> 0,
          disposal |-> [disp EXCEPT !.freed = @ + 1, !.dropped = @ + 1],
          fault |-> "none"]

\* SharedBox::dec on a box with strong count cnt, disposal record disp and
\* access acc: the new count, what was freed and dropped, and the abort or
\* failed debug assertion if any.
dec(cnt, disp, acc) ==
    IF cnt = 0
    THEN [count |-> cnt, disposal |-> disp, fault |-> "abort"]
    ELSE IF cnt - 1 # 0
    THEN [count |-> cnt - 1, disposal |-> disp, fault |-> "none"]
    ELSE IF is_taken(acc)
    THEN [count |-> 0,
          disposal |-> [disp EXCEPT !.freed = @ + 1],
          fault |-> "none"]
    ELSE [count |-> 0,
          disposal |-> [disp EXCEPT !.freed = @ + 1, !.dropped = @ + 1],
          fault |-> IF is_exclusive(acc) THEN "none" ELSE "debug_assert"]

\* A strong reference to cell c is given back (Drop for Shared, Drop for
\* RawSharedBox): dec runs on the box as it is at that moment.
GiveBack(c, disp, acc) ==
    LET r == dec(count[c], disp, acc) IN
    /\ count' = [count EXCEPT ![c] = r.count]
    /\ disposal' = [disposal EXCEPT ![c] = r.disposal]
    /\ fault' = r.fault

\* ------------------------------------------------------------------- Shared
\* A readable test that asks for what is_writable asks.
is_readable_as_writable(c) == is_exclusive(access[c])

\* Shared::is_readable, through a handle of cell c
is_readable(c) == is_shared(access[c])

\* Shared::is_writable
is_writable(c) == is_exclusive(access[c])

\* Clone for Shared
clone(c, d) ==
    LET r == inc(count[c]) IN
    /\ Running /\ HasHandle(c, d) /\ TotalHandles < MaxHandles
    /\ count' = [count EXCEPT ![c] = r.count]
    /\ fault' = r.fault
    /\ handles' = IF r.fault = "none" THEN [handles EXCEPT ![c][Idle] = @ + 1] ELSE handles
    /\ last' = Op("clone", c, TRUE, 0)
    /\ UNCHANGED <<access, data, disposal, owned, selVars>>
    /\ UNCHANGED toolVars

\* Drop for Shared
drop(c, d) ==
    /\ Running /\ HasHandle(c, d) /\ ~Borrowed(d)
    /\ GiveBack(c, disposal[c], access[c])
    /\ handles' = Without(c, d)
    /\ last' = Op("drop", c, TRUE, 0)
    /\ UNCHANGED <<access, data, owned, selVars>>
    /\ UNCHANGED toolVars

\* A take whose access guard is released when take returns.
take_released(c, d) ==
    LET r == take_access(access[c])
        disp == IF r.ok THEN [disposal[c] EXCEPT !.moved = @ + 1] ELSE disposal[c] IN
    /\ Running /\ HasHandle(c, d) /\ ~Borrowed(d)
    /\ UNCHANGED access
    /\ \E v \in (IF r.ok THEN ReadInterior(c) ELSE {0}) : last' = Op("take", c, r.ok, v)
    /\ GiveBack(c, disp, access[c])
    /\ handles' = Without(c, d)
    /\ UNCHANGED <<data, owned, selVars>>
    /\ UNCHANGED toolVars

\* Shared::take: consumes the handle; the access guard is never released.
take(c, d) ==
    LET r == take_access(access[c])
        disp == IF r.ok THEN [disposal[c] EXCEPT !.moved = @ + 1] ELSE disposal[c] IN
    /\ Running /\ HasHandle(c, d) /\ ~Borrowed(d)
    /\ access' = [access EXCEPT ![c] = r.access]
    /\ \E v \in (IF r.ok THEN ReadInterior(c) ELSE {0}) : last' = Op("take", c, r.ok, v)
    /\ GiveBack(c, disp, r.access)
    /\ handles' = Without(c, d)
    /\ UNCHANGED <<data, owned, selVars>>
    /\ UNCHANGED toolVars

\* The access an owned_ref / owned_mut asks for (shared.rs lines 190 and 240).
OwnedRefAcquire(a) == shared(a)

\* An owned_mut that asks for shared access.
OwnedMutAcquireShared(a) == shared(a)

OwnedMutAcquire(a) == exclusive(a)

\* An owned_ref that drops the handle although the guard took its reference.
owned_ref_drops_handle(c, d) ==
    LET r == OwnedRefAcquire(access[c]) IN
    /\ Running /\ HasHandle(c, d) /\ ~Borrowed(d)
    /\ r.ok => TotalGuards < MaxGuards
    /\ access' = [access EXCEPT ![c] = r.access]
    /\ handles' = Without(c, d)
    /\ owned' = IF r.ok THEN [owned EXCEPT ![c].refs = @ + 1] ELSE owned
    /\ GiveBack(c, disposal[c], r.access)
    /\ \E v \in (IF r.ok THEN ReadInterior(c) ELSE {0}) : last' = Op("owned_ref", c, r.ok, v)
    /\ UNCHANGED <<data, selVars>>
    /\ UNCHANGED toolVars

\* Shared::owned_ref: consumes the handle; on success its strong reference
\* moves into the guard, on failure the handle is dropped.
owned_ref(c, d) ==
    LET r == OwnedRefAcquire(access[c]) IN
    /\ Running /\ HasHandle(c, d) /\ ~Borrowed(d)
    /\ r.ok => TotalGuards < MaxGuards
    /\ access' = [access EXCEPT ![c] = r.access]
    /\ handles' = Without(c, d)
    /\ IF r.ok
       THEN /\ owned' = [owned EXCEPT ![c].refs = @ + 1]
            /\ UNCHANGED <<count, disposal, fault>>
       ELSE /\ GiveBack(c, disposal[c], r.access)
            /\ UNCHANGED owned
    /\ \E v \in (IF r.ok THEN ReadInterior(c) ELSE {0}) : last' = Op("owned_ref", c, r.ok, v)
    /\ UNCHANGED <<data, selVars>>
    /\ UNCHANGED toolVars

\* Shared::owned_mut
owned_mut(c, d) ==
    LET r == OwnedMutAcquire(access[c]) IN
    /\ Running /\ HasHandle(c, d) /\ ~Borrowed(d)
    /\ r.ok => TotalGuards < MaxGuards
    /\ access' = [access EXCEPT ![c] = r.access]
    /\ handles' = Without(c, d)
    /\ IF r.ok
       THEN /\ owned' = [owned EXCEPT ![c].muts = @ + 1]
            /\ UNCHANGED <<count, disposal, fault>>
       ELSE /\ GiveBack(c, disposal[c], r.access)
            /\ UNCHANGED owned
    /\ \E v \in (IF r.ok THEN ReadInterior(c) ELSE {0}) : last' = Op("owned_mut", c, r.ok, v)
    /\ UNCHANGED <<data, selVars>>
    /\ UNCHANGED toolVars

\* A borrow_ref that does not look at the access.
borrow_ref_unchecked(c, d) ==
    /\ Running /\ HasHandle(c, d) /\ TotalGuards < MaxGuards
    /\ access' = [access EXCEPT ![c].readers = @ + 1]
    /\ handles' = Redescribe(c, d, [d EXCEPT !.refs = @ + 1])
    /\ \E v \in ReadInterior(c) : last' = Op("borrow_ref", c, TRUE, v)
    /\ UNCHANGED <<count, data, disposal, owned, fault, selVars>>
    /\ UNCHANGED toolVars

\* Shared::borrow_ref
borrow_ref(c, d) ==
    LET r == shared(access[c]) IN
    /\ Running /\ HasHandle(c, d)
    /\ r.ok => TotalGuards < MaxGuards
    /\ access' = [access EXCEPT ![c] = r.access]
    /\ handles' = IF r.ok THEN Redescribe(c, d, [d EXCEPT !.refs = @ + 1]) ELSE handles
    /\ \E v \in (IF r.ok THEN ReadInterior(c) ELSE {0}) : last' = Op("borrow_ref", c, r.ok, v)
    /\ UNCHANGED <<count, data, disposal, owned, fault, selVars>>
    /\ UNCHANGED toolVars

\* A borrow_mut that asks for shared access.
borrow_mut_as_shared(c, d) ==
    LET r == shared(access[c]) IN
    /\ Running /\ HasHandle(c, d)
    /\ r.ok => TotalGuards < MaxGuards
    /\ access' = [access EXCEPT ![c] = r.access]
    /\ handles' = IF r.ok THEN Redescribe(c, d, [d EXCEPT !.muts = @ + 1]) ELSE handles
    /\ \E v \in (IF r.ok THEN ReadInterior(c) ELSE {0}) : last' = Op("borrow_mut", c, r.ok, v)
    /\ UNCHANGED <<count, data, disposal, owned, fault, selVars>>
    /\ UNCHANGED toolVars

\* A borrow_mut that is refused only by a writer or a taken cell.
borrow_mut_ignores_readers(c, d) ==
    LET ok == is_shared(access[c]) IN
    /\ Running /\ HasHandle(c, d)
    /\ ok => TotalGuards < MaxGuards
    /\ access' = IF ok THEN [access EXCEPT ![c].writer = TRUE] ELSE access
    /\ handles' = IF ok THEN Redescribe(c, d, [d EXCEPT !.muts = @ + 1]) ELSE handles
    /\ \E v \in (IF ok THEN ReadInterior(c) ELSE {0}) : last' = Op("borrow_mut", c, ok, v)
    /\ UNCHANGED <<count, data, disposal, owned, fault, selVars>>
    /\ UNCHANGED toolVars

\* Shared::borrow_mut
borrow_mut(c, d) ==
    LET r == exclusive(access[c]) IN
    /\ Running /\ HasHandle(c, d)
    /\ r.ok => TotalGuards < MaxGuards
    /\ access' = [access EXCEPT ![c] = r.access]
    /\ handles' = IF r.ok THEN Redescribe(c, d, [d EXCEPT !.muts = @ + 1]) ELSE handles
    /\ \E v \in (IF r.ok THEN ReadInterior(c) ELSE {0}) : last' = Op("borrow_mut", c, r.ok, v)
    /\ UNCHANGED <<count, data, disposal, owned, fault, selVars>>
    /\ UNCHANGED toolVars

\* -------------------------------------------------------------- Shared<Any>
\* The interior is an Any; matches tells whether it holds the type T the
\* caller asks for.  What an operation returns when it fails:
DowncastErr(acquired, matches) ==
    IF ~acquired THEN "AccessError" ELSE IF ~matches THEN "UnexpectedType" ELSE "none"

\* A take_downcast that, its type refused, leaves the guard where it is.
take_downcast_stays_taken(c, d, matches) ==
    LET r == take_access(access[c])
        ok == r.ok /\ matches
        disp == IF ok THEN [disposal[c] EXCEPT !.moved = @ + 1] ELSE disposal[c] IN
    /\ Running /\ HasHandle(c, d) /\ ~Borrowed(d)
    /\ access' = [access EXCEPT ![c] = r.access]
    /\ IF ok
       THEN \E v \in ReadInterior(c) : last' = Op("take_downcast", c, TRUE, v)
       ELSE last' = OpErr("take_downcast", c, DowncastErr(r.ok, matches))
    /\ GiveBack(c, disp, r.access)
    /\ handles' = Without(c, d)
    /\ UNCHANGED <<data, owned, selVars>>
    /\ UNCHANGED toolVars

\* Shared<Any>::take_downcast: consumes the handle.  The access is taken and
\* the interior read out; of the type asked for it is returned and the guard
\* never released; of another type the guard is dropped, the interior written
\* back and UnexpectedType returned.
take_downcast(c, d, matches) ==
    LET r == take_access(access[c])
        ok == r.ok /\ matches
        after == IF r.ok /\ ~matches THEN release_take(r.access) ELSE r.access
        disp == IF ok THEN [disposal[c] EXCEPT !.moved = @ + 1] ELSE disposal[c] IN
    /\ Running /\ HasHandle(c, d) /\ ~Borrowed(d)
    /\ access' = [access EXCEPT ![c] = after]
    /\ IF ok
       THEN \E v \in ReadInterior(c) : last' = Op("take_downcast", c, TRUE, v)
       ELSE last' = OpErr("take_downcast", c, DowncastErr(r.ok, matches))
    /\ GiveBack(c, disp, after)
    /\ handles' = Without(c, d)
    /\ UNCHANGED <<data, owned, selVars>>
    /\ UNCHANGED toolVars

\* Shared<Any>::downcast_borrow_ref: the guard acquired is dropped by the
\* return of UnexpectedType.
downcast_borrow_ref(c, d, matches) ==
    LET r == shared(access[c])
        ok == r.ok /\ matches
        after == IF r.ok /\ ~matches THEN release_shared(r.access) ELSE r.access IN
    /\ Running /\ HasHandle(c, d)
    /\ ok => TotalGuards < MaxGuards
    /\ access' = [access EXCEPT ![c] = after]
    /\ handles' = IF ok THEN Redescribe(c, d, [d EXCEPT !.refs = @ + 1]) ELSE handles
    /\ IF ok
       THEN \E v \in ReadInterior(c) : last' = Op("downcast_borrow_ref", c, TRUE, v)
       ELSE last' = OpErr("downcast_borrow_ref", c, DowncastErr(r.ok, matches))
    /\ UNCHANGED <<count, data, disposal, owned, fault, selVars>>
    /\ UNCHANGED toolVars

\* Shared<Any>::downcast_borrow_mut
downcast_borrow_mut(c, d, matches) ==
    LET r == exclusive(access[c])
        ok == r.ok /\ matches
        after == IF r.ok /\ ~matches THEN release_exclusive(r.access) ELSE r.access IN
    /\ Running /\ HasHandle(c, d)
    /\ ok => TotalGuards < MaxGuards
    /\ access' = [access EXCEPT ![c] = after]
    /\ handles' = IF ok THEN Redescribe(c, d, [d EXCEPT !.muts = @ + 1]) ELSE handles
    /\ IF ok
       THEN \E v \in ReadInterior(c) : last' = Op("downcast_borrow_mut", c, TRUE, v)
       ELSE last' = OpErr("downcast_borrow_mut", c, DowncastErr(r.ok, matches))
    /\ UNCHANGED <<count, data, disposal, owned, fault, selVars>>
    /\ UNCHANGED toolVars

\* Shared<Any>::downcast_owned_ref: consumes the handle.  On UnexpectedType
\* the guard, a local, is dropped before self, the argument: the access is
\* released, then the handle's reference given back.
downcast_owned_ref(c, d, matches) ==
    LET r == shared(access[c])
        ok == r.ok /\ matches
        after == IF r.ok /\ ~matches THEN release_shared(r.access) ELSE r.access IN
    /\ Running /\ HasHandle(c, d) /\ ~Borrowed(d)
    /\ ok => TotalGuards < MaxGuards
    /\ access' = [access EXCEPT ![c] = after]
    /\ handles' = Without(c, d)
    /\ IF ok
       THEN /\ owned' = [owned EXCEPT ![c].refs = @ + 1]
            /\ UNCHANGED <<count, disposal, fault>>
            /\ \E v \in ReadInterior(c) : last' = Op("downcast_owned_ref", c, TRUE, v)
       ELSE /\ GiveBack(c, disposal[c], after)
            /\ UNCHANGED owned
            /\ last' = OpErr("downcast_owned_ref", c, DowncastErr(r.ok, matches))
    /\ UNCHANGED <<data, selVars>>
    /\ UNCHANGED toolVars

\* Shared<Any>::downcast_owned_mut
downcast_owned_mut(c, d, matches) ==
    LET r == exclusive(access[c])
        ok == r.ok /\ matches
        after == IF r.ok /\ ~matches THEN release_exclusive(r.access) ELSE r.access IN
    /\ Running /\ HasHandle(c, d) /\ ~Borrowed(d)
    /\ ok => TotalGuards < MaxGuards
    /\ access' = [access EXCEPT ![c] = after]
    /\ handles' = Without(c, d)
    /\ IF ok
       THEN /\ owned' = [owned EXCEPT ![c].muts = @ + 1]
            /\ UNCHANGED <<count, disposal, fault>>
            /\ \E v \in ReadInterior(c) : last' = Op("downcast_owned_mut", c, TRUE, v)
       ELSE /\ GiveBack(c, disposal[c], after)
            /\ UNCHANGED owned
            /\ last' = OpErr("downcast_owned_mut", c, DowncastErr(r.ok, matches))
    /\ UNCHANGED <<data, selVars>>
    /\ UNCHANGED toolVars

\* ------------------------------------------------------------------- guards
\* Deref for a guard on cell c: a read of the interior through its pointer.
deref(c) ==
    /\ Running /\ NShared(c) + BorrowMuts(c) + owned[c].muts > 0
    /\ \E v \in ReadInterior(c) : last' = Op("deref", c, TRUE, v)
    /\ UNCHANGED <<boxVars, handles, owned, fault, selVars>>
    /\ UNCHANGED toolVars

\* DerefMut for an exclusive guard on cell c: a write of the interior.
deref_mut(c, v) ==
    /\ Running /\ BorrowMuts(c) + owned[c].muts > 0
    /\ v # data[c]
    /\ data' = [data EXCEPT ![c] = v]
    /\ last' = Op("deref_mut", c, TRUE, v)
    /\ UNCHANGED <<access, count, disposal, handles, owned, fault, selVars>>
    /\ UNCHANGED toolVars

\* Drop for a BorrowRef made from a handle described by d: the access is
\* given back.
drop_borrow_ref(c, d) ==
    /\ Running /\ HasHandle(c, d) /\ d.refs > 0
    /\ access' = [access EXCEPT ![c] = release_shared(@)]
    /\ handles' = Redescribe(c, d, [d EXCEPT !.refs = @ - 1])
    /\ last' = Op("drop_borrow_ref", c, TRUE, 0)
    /\ UNCHANGED <<count, data, disposal, owned, fault, selVars>>
    /\ UNCHANGED toolVars

\* Drop for a BorrowMut
drop_borrow_mut(c, d) ==
    /\ Running /\ HasHandle(c, d) /\ d.muts > 0
    /\ access' = [access EXCEPT ![c] = release_exclusive(@)]
    /\ handles' = Redescribe(c, d, [d EXCEPT !.muts = @ - 1])
    /\ last' = Op("drop_borrow_mut", c, TRUE, 0)
    /\ UNCHANGED <<count, data, disposal, owned, fault, selVars>>
    /\ UNCHANGED toolVars

\* An OwnedRef whose fields drop in the other order: the reference is given
\* back while the shared access is still held, then the access is released.
OwnedRefDropRefFirst(acc, cnt, disp) ==
    LET r == dec(cnt, disp, acc) IN
    [access |-> release_shared(acc), count |-> r.count,
     disposal |-> r.disposal, fault |-> r.fault]

\* Drop for OwnedRef, on a box with access acc, strong count cnt and disposal
\* record disp: the fields drop in declaration order, the guard first, then
\* the RawSharedBox, which gives the strong reference back.
OwnedRefDrop(acc, cnt, disp) ==
    LET released == release_shared(acc)
        r == dec(cnt, disp, released) IN
    [access |-> released, count |-> r.count, disposal |-> r.disposal, fault |-> r.fault]

drop_owned_ref(c) ==
    LET r == OwnedRefDrop(access[c], count[c], disposal[c]) IN
    /\ Running /\ owned[c].refs > 0
    /\ access' = [access EXCEPT ![c] = r.access]
    /\ count' = [count EXCEPT ![c] = r.count]
    /\ disposal' = [disposal EXCEPT ![c] = r.disposal]
    /\ fault' = r.fault
    /\ owned' = [owned EXCEPT ![c].refs = @ - 1]
    /\ last' = Op("drop_owned_ref", c, TRUE, 0)
    /\ UNCHANGED <<data, handles, selVars>>
    /\ UNCHANGED toolVars

\* An OwnedMut whose fields drop in the other order: the reference is given
\* back while the access is still held, then the access is released.
OwnedMutDropRefFirst(acc, cnt, disp) ==
    LET r == dec(cnt, disp, acc) IN
    [access |-> release_exclusive(acc), count |-> r.count,
     disposal |-> r.disposal, fault |-> r.fault]

\* An OwnedMut whose drop gives the reference back but not the access.
OwnedMutDropKeepsAccess(acc, cnt, disp) ==
    LET r == dec(cnt, disp, AccessNew) IN
    [access |-> acc, count |-> r.count, disposal |-> r.disposal, fault |-> r.fault]

\* Drop for OwnedMut
OwnedMutDrop(acc, cnt, disp) ==
    LET released == release_exclusive(acc)
        r == dec(cnt, disp, released) IN
    [access |-> released, count |-> r.count, disposal |-> r.disposal, fault |-> r.fault]

drop_owned_mut(c) ==
    LET r == OwnedMutDrop(access[c], count[c], disposal[c]) IN
    /\ Running /\ owned[c].muts > 0
    /\ access' = [access EXCEPT ![c] = r.access]
    /\ count' = [count EXCEPT ![c] = r.count]
    /\ disposal' = [disposal EXCEPT ![c] = r.disposal]
    /\ fault' = r.fault
    /\ owned' = [owned EXCEPT ![c].muts = @ - 1]
    /\ last' = Op("drop_owned_mut", c, TRUE, 0)
    /\ UNCHANGED <<data, handles, selVars>>
    /\ UNCHANGED toolVars

\* ------------------------------------------------------------------- Select
\* The value the future in cell c produces.
FutureValue(c) == c

BranchCells == {b.cell : b \in selFutures}

\* The cells whose futures were given to the Select.
SelectCells == {b.cell : b \in selBranches}

ReadyBranches == {b \in selFutures : ready[b.cell] \in {"ok", "err"}}

\* The futures on the stack, in source order: distinct cells.
CellSeqs ==
    {cs \in UNION {[1..n -> Cells] : n \in 1..NCells} :
        \A i, j \in 1..Len(cs) : i # j => cs[i] # cs[j]}

SeqCells(cs) == {cs[i] : i \in 1..Len(cs)}

\* The Select instruction builds the stored select: the n futures popped from
\* the stack are tagged with their position and each is turned into an
\* OwnedMut<Future>; Select::new stores them.
SelectNew(cs) ==
    /\ Running /\ selState = "none"
    /\ \A c \in SeqCells(cs) :
          HasHandle(c, Idle) /\ OwnedMutAcquire(access[c]).ok /\ ready[c] # "done"
    /\ access' = [c \in Cells |->
                    IF c \in SeqCells(cs) THEN OwnedMutAcquire(access[c]).access ELSE access[c]]
    /\ handles' = [c \in Cells |->
                    IF c \in SeqCells(cs) THEN [handles[c] EXCEPT ![Idle] = @ - 1] ELSE handles[c]]
    /\ selBranches' = {[tag |-> i - 1, cell |-> cs[i]] : i \in 1..Len(cs)}
    /\ selFutures' = selBranches'
    /\ selState' = "new"
    /\ selOut' = <<>>
    /\ last' = Op("select_new", IF cs = <<>> THEN 1 ELSE cs[1], TRUE, 0)
    /\ UNCHANGED <<count, data, disposal, owned, fault, ready>>
    /\ UNCHANGED toolVars

\* The computation behind a branch future finishes and wakes the task.
FutureReady(c, outcome) ==
    /\ Running /\ selState \in {"new", "pending"}
    /\ c \in BranchCells /\ ready[c] = "pending"
    /\ ready' = [ready EXCEPT ![c] = outcome]
    /\ last' = Op("future_ready", c, TRUE, 0)
    /\ UNCHANGED <<boxVars, handles, owned, fault, selState, selBranches, selFutures, selOut>>
    /\ UNCHANGED toolVars

\* SelectFuture::poll: the branch's output paired with its tag.
SelectOutput(b) ==
    IF ready[b.cell] = "ok"
    THEN [ok |-> TRUE, index |-> b.tag, value |-> FutureValue(b.cell),
          from |-> b.cell, outcome |-> ready[b.cell]]
    ELSE [ok |-> FALSE, index |-> 0, value |-> 0,
          from |-> b.cell, outcome |-> ready[b.cell]]

\* A poll that hands out any branch it holds, finished or not.
poll_unready(pick) ==
    /\ Running /\ selState \in {"new", "pending"}
    /\ pick \in selFutures
    /\ LET c == pick.cell
           r == OwnedMutDrop(access[c], count[c], disposal[c]) IN
       /\ selOut' = Append(selOut, SelectOutput(pick))
       /\ selFutures' = selFutures \ {pick}
       /\ selState' = "resolved"
       /\ ready' = [ready EXCEPT ![c] = "done"]
       /\ access' = [access EXCEPT ![c] = r.access]
       /\ count' = [count EXCEPT ![c] = r.count]
       /\ disposal' = [disposal EXCEPT ![c] = r.disposal]
       /\ fault' = r.fault
    /\ last' = Op("poll", pick.cell, TRUE, 0)
    /\ UNCHANGED <<data, handles, owned, selBranches>>
    /\ UNCHANGED toolVars

\* Future for Select: one poll, by the task that awaits the select.  A future
\* that has returned Ready is not polled again.  FuturesUnordered::poll_next
\* hands out one finished branch and drops its future, reports Pending when
\* none has finished, and ends when it holds no future.
poll(pick) ==
    /\ Running /\ selState \in {"new", "pending"}
    /\ pick \in (IF ReadyBranches = {} THEN {[tag |-> 0, cell |-> 1]} ELSE ReadyBranches)
    /\ IF selFutures = {}
       THEN /\ fault' = "stream_end"
            /\ UNCHANGED <<access, count, disposal, ready, selState, selFutures, selOut>>
       ELSE IF ReadyBranches = {}
       THEN /\ selState' = "pending"
            /\ UNCHANGED <<access, count, disposal, ready, fault, selFutures, selOut>>
       ELSE LET c == pick.cell
                r == OwnedMutDrop(access[c], count[c], disposal[c]) IN
            /\ selOut' = Append(selOut, SelectOutput(pick))
            /\ selFutures' = selFutures \ {pick}
            /\ selState' = "resolved"
            /\ ready' = [ready EXCEPT ![c] = "done"]
            /\ access' = [access EXCEPT ![c] = r.access]
            /\ count' = [count EXCEPT ![c] = r.count]
            /\ disposal' = [disposal EXCEPT ![c] = r.disposal]
            /\ fault' = r.fault
    /\ last' = Op("poll", pick.cell, TRUE, 0)
    /\ UNCHANGED <<data, handles, owned, selBranches>>
    /\ UNCHANGED toolVars

\* The Select is dropped, resolved or not: every future it still holds is
\* dropped with it.
SelectDrop ==
    LET r == [c \in Cells |-> OwnedMutDrop(access[c], count[c], disposal[c])]
        faults == {r[c].fault : c \in BranchCells} \ {"none"} IN
    /\ Running /\ selState \in {"new", "pending", "resolved"}
    /\ access' = [c \in Cells |-> IF c \in BranchCells THEN r[c].access ELSE access[c]]
    /\ count' = [c \in Cells |-> IF c \in BranchCells THEN r[c].count ELSE count[c]]
    /\ disposal' = [c \in Cells |-> IF c \in BranchCells THEN r[c].disposal ELSE disposal[c]]
    /\ fault' = IF faults = {} THEN "none" ELSE CHOOSE f \in faults : TRUE
    /\ selFutures' = {}
    /\ selState' = "dropped"
    /\ last' = Op("select_drop", 1, TRUE, 0)
    /\ UNCHANGED <<data, handles, owned, ready, selBranches, selOut>>
    /\ UNCHANGED toolVars

\* ------------------------------------------------------- rune-cli: the loader
\* The entry file is source, the bytecode file beside it (the same path with
\* the extension rnc) is cached.  A unit is told by the version of the text it
\* was compiled from.
Times == 0..MaxTime

Versions == 0..MaxVer

NoCache == [state |-> "absent", unit |-> 0, mtime |-> 0]

\* main before the unit is there.
NoExec ==
    [pc |-> "none", trace |-> FALSE, dump |-> FALSE, steps |-> 0,
     halted |-> "no", result |-> "none", value |-> 0]

RunIdle ==
    [pc |-> "idle", bytecode |-> FALSE, useCache |-> FALSE,
     srcMtime |-> 0, cacheMtime |-> 0, cacheSeen |-> "absent",
     deserFailed |-> FALSE, compiled |-> FALSE, fromCache |-> FALSE,
     wrote |-> FALSE, unit |-> {}, error |-> "none",
     warnings |-> FALSE, diag |-> "none"]

\* should_cache_be_used: false when the cached file is not found, otherwise
\* whether source was modified before cached.
should_cache_be_used(src, cch) ==
    IF cch.state = "absent" THEN FALSE ELSE src.mtime < cch.mtime

\* get_or_build_unit, first statement: use_cache.  A run starts; what it saw
\* of the two files is kept with it.
UseCache(bytecode) ==
    LET use == bytecode /\ should_cache_be_used(source, cached) IN
    /\ run.pc \in {"idle", "done", "failed"}
    /\ run' = [RunIdle EXCEPT !.pc = IF use THEN "open" ELSE "build",
                              !.bytecode = bytecode,
                              !.useCache = use,
                              !.srcMtime = source.mtime,
                              !.cacheMtime = cached.mtime,
                              !.cacheSeen = cached.state]
    /\ exec' = NoExec
    /\ UNCHANGED <<now, source, cached, rtVars, compVars, parVars, vmVars, escVars>>

\* A loader for which bytes that do not deserialize end the run.
DeserializeOrFail ==
    /\ run.pc = "open"
    /\ run' = IF cached.state = "absent"
              THEN [run EXCEPT !.pc = "failed", !.error = "open"]
              ELSE IF cached.state = "unit"
              THEN [run EXCEPT !.pc = "done", !.fromCache = TRUE, !.unit = {cached.unit}]
              ELSE [run EXCEPT !.pc = "failed", !.deserFailed = TRUE, !.error = "deserialize"]
    /\ UNCHANGED <<now, source, cached, exec, rtVars, compVars, parVars, vmVars, escVars>>

\* get_or_build_unit with use_cache: the file is opened (an error ends the
\* run) and deserialized; bytes that are no unit are logged and leave
\* maybe_unit None.
Deserialize ==
    /\ run.pc = "open"
    /\ run' = IF cached.state = "absent"
              THEN [run EXCEPT !.pc = "failed", !.error = "open"]
              ELSE IF cached.state = "unit"
              THEN [run EXCEPT !.pc = "done", !.fromCache = TRUE, !.unit = {cached.unit}]
              ELSE [run EXCEPT !.pc = "build", !.deserFailed = TRUE]
    /\ UNCHANGED <<now, source, cached, exec, rtVars, compVars, parVars, vmVars, escVars>>

\* A load that goes on, without a unit, after its diagnostics are written.
load_path_goes_on(r, src, stderr) ==
    IF src.ok
    THEN [r EXCEPT !.pc = IF r.bytecode THEN "write" ELSE "done",
                   !.compiled = TRUE, !.unit = {src.ver}, !.warnings = src.warns]
    ELSE [r EXCEPT !.pc = IF r.bytecode THEN "write" ELSE "done",
                   !.unit = {src.ver},
                   !.diag = IF stderr THEN "emitted" ELSE "failed"]

\* get_or_build_unit, lines 229-241: the source as it is now is compiled; the
\* warnings of the compile are left in the buffer of main; a load error has
\* its diagnostics written to stderr (which may fail) and ends the run.
load_path(r, src, stderr) ==
    IF src.ok
    THEN [r EXCEPT !.pc = IF r.bytecode THEN "write" ELSE "done",
                   !.compiled = TRUE, !.unit = {src.ver}, !.warnings = src.warns]
    ELSE [r EXCEPT !.pc = "failed", !.error = "load",
                   !.diag = IF stderr THEN "emitted" ELSE "failed"]

\* get_or_build_unit without a unit from the cache: rune::load_path compiles
\* the source as it is now; a load error ends the run.
LoadPath(stderr) ==
    /\ run.pc = "build"
    /\ run' = load_path(run, source, stderr)
    /\ UNCHANGED <<now, source, cached, exec, rtVars, compVars, parVars, vmVars, escVars>>

\* get_or_build_unit, options.bytecode: the bytecode file is created anew and
\* the unit serialized into it; an error of File::create ends the run.
SerializeCache(created) ==
    /\ run.pc = "write"
    /\ IF created
       THEN /\ cached' = [state |-> "unit", unit |-> CHOOSE v \in run.unit : TRUE,
                          mtime |-> now]
            /\ run' = [run EXCEPT !.pc = "done", !.wrote = TRUE]
       ELSE /\ run' = [run EXCEPT !.pc = "failed", !.error = "create"]
            /\ UNCHANGED cached
    /\ UNCHANGED <<now, source, exec, rtVars, compVars, parVars, vmVars, escVars>>

\* The world around the loader: time passes, the source is edited, the
\* bytecode file is damaged or removed.
Tick ==
    /\ now < MaxTime
    /\ now' = now + 1
    /\ UNCHANGED <<source, cached, run, exec, rtVars, compVars, parVars, vmVars, escVars>>

EditSource(compiles, warns) ==
    /\ source.ver < MaxVer
    /\ source' = [ver |-> source.ver + 1, ok |-> compiles, warns |-> warns, mtime |-> now]
    /\ UNCHANGED <<now, cached, run, exec, rtVars, compVars, parVars, vmVars, escVars>>

DamageCache ==
    /\ cached.state = "unit"
    /\ cached' = [state |-> "corrupt", unit |-> 0, mtime |-> now]
    /\ UNCHANGED <<now, source, run, exec, rtVars, compVars, parVars, vmVars, escVars>>

RemoveCache ==
    /\ cached.state # "absent"
    /\ cached' = NoCache
    /\ UNCHANGED <<now, source, run, exec, rtVars, compVars, parVars, vmVars, escVars>>

\* -------------------------------------------------- rune-cli: main, do_trace
\* main, lines 129-132: with the unit there, the warnings collected are
\* written to stderr; an error of the write ends main.
EmitWarnings(stderr) ==
    /\ run.pc = "done" /\ exec.pc = "none"
    /\ exec' = IF run.warnings /\ ~stderr
               THEN [exec EXCEPT !.pc = "exited", !.result = "io_error"]
               ELSE [exec EXCEPT !.pc = "warned"]
    /\ UNCHANGED <<now, source, cached, run, rtVars, compVars, parVars, vmVars, escVars>>

\* main, lines 134-160: the Vm is made over the unit and main is called, which
\* gives the execution or an error (no such function); the execution is then
\* traced or run to completion.
VmCall(trace, dump, found) ==
    /\ exec.pc = "warned"
    /\ exec' = IF ~found
               THEN [exec EXCEPT !.pc = "exited", !.result = "vm_error"]
               ELSE [exec EXCEPT !.pc = IF trace THEN "print" ELSE "complete",
                                 !.trace = trace, !.dump = dump]
    /\ UNCHANGED <<now, source, cached, run, rtVars, compVars, parVars, vmVars, escVars>>

\* main, line 174: async_complete runs the execution to its value or error.
Complete(outcome) ==
    /\ exec.pc = "complete"
    /\ exec' = [exec EXCEPT !.pc = "exited",
                            !.halted = IF outcome.kind = "Err" THEN "error" ELSE "value",
                            !.result = IF outcome.kind = "Err" THEN "vm_error" ELSE "ok",
                            !.value = outcome.value]
    /\ UNCHANGED <<now, source, cached, run, rtVars, compVars, parVars, vmVars, escVars>>

\* do_trace, lines 429-481: the instruction about to run is written to stdout;
\* an error of the write ends the trace.
TracePrint(stdout) ==
    /\ exec.pc = "print"
    /\ exec' = IF stdout THEN [exec EXCEPT !.pc = "step"]
               ELSE [exec EXCEPT !.pc = "exited", !.result = "io_error"]
    /\ UNCHANGED <<now, source, cached, run, rtVars, compVars, parVars, vmVars, escVars>>

\* What a step of the execution gives: None, Some(value) or an error.
Outcomes ==
    {[kind |-> "None", value |-> 0], [kind |-> "Err", value |-> 0]}
        \cup {[kind |-> "Some", value |-> v] : v \in Values}

\* What the machine has come to with a step.
Halt(outcome) ==
    CASE outcome.kind = "Err" -> "error"
      [] outcome.kind = "Some" -> "value"
      [] OTHER -> "no"

\* A trace whose loop goes on after the step that gave the value.
do_trace_step_no_break(e, outcome, stdout) ==
    LET stepped == [e EXCEPT !.steps = e.steps + 1, !.halted = Halt(outcome)] IN
    IF outcome.kind = "Err"
    THEN [stepped EXCEPT !.pc = "exited", !.result = "vm_error"]
    ELSE IF e.dump /\ ~stdout
    THEN [stepped EXCEPT !.pc = "exited", !.result = "io_error"]
    ELSE [stepped EXCEPT !.pc = "print", !.value = outcome.value]

\* do_trace, lines 483-519: one async_step; its error is returned; the stack
\* is written if asked for (an error of the write is returned); Some(value)
\* ends the loop with the value, None goes round.
do_trace_step(e, outcome, stdout) ==
    LET stepped == [e EXCEPT !.steps = e.steps + 1, !.halted = Halt(outcome)] IN
    IF outcome.kind = "Err"
    THEN [stepped EXCEPT !.pc = "exited", !.result = "vm_error"]
    ELSE IF e.dump /\ ~stdout
    THEN [stepped EXCEPT !.pc = "exited", !.result = "io_error"]
    ELSE IF outcome.kind = "Some"
    THEN [stepped EXCEPT !.pc = "exited", !.result = "ok", !.value = outcome.value]
    ELSE [stepped EXCEPT !.pc = "print"]

TraceStep(outcome, stdout) ==
    /\ exec.pc = "step"
    /\ exec.steps < MaxSteps
    /\ outcome.kind = "None" => exec.steps + 1 < MaxSteps
    /\ exec' = do_trace_step(exec, outcome, stdout)
    /\ UNCHANGED <<now, source, cached, run, rtVars, compVars, parVars, vmVars, escVars>>

\* ------------------------------------------------- rune: compiling expressions
\* The binary operators (ast::BinOp), by the names of their variants.
NonAssignOps ==
    {"Add", "Sub", "Div", "Mul", "Rem", "Eq", "Neq", "Lt", "Gt", "Lte", "Gte",
     "Is", "IsNot", "And", "Or", "BitAnd", "BitXor", "BitOr", "Shl", "Shr"}

CompoundOps ==
    {"AddAssign", "SubAssign", "MulAssign", "DivAssign", "RemAssign",
     "BitAndAssign", "BitXorAssign", "BitOrAssign", "ShlAssign", "ShrAssign"}

BinOps == NonAssignOps \cup {"Assign"} \cup CompoundOps

\* BinOp::is_assign
is_assign(op) == op \in {"Assign"} \cup CompoundOps

\* The three needs; Needs::value is true of Value and of Type.
NeedsSet == {"Value", "Type", "None"}

needs_value(needs) == needs \in {"Value", "Type"}

\* Expressions.  A span is named by the place of its node in the expression
\* compiled (the path from the root) and the part of the node it covers.
Lit == [kind |-> "Lit"]

Path(name, bare) == [kind |-> "Path", first |-> name, bare |-> bare]

ExprBinary(op, lhs, rhs) == [kind |-> "ExprBinary", op |-> op, lhs |-> lhs, rhs |-> rhs]

\* e.field: expr_field is an identifier
FieldIdent(e, name) ==
    [kind |-> "ExprFieldAccess", expr |-> e, field |-> "Ident", name |-> name]

\* e.N: expr_field is a number; valid says whether into_tuple_index is Some
FieldNumber(e, n, valid) ==
    [kind |-> "ExprFieldAccess", expr |-> e, field |-> "LitNumber", number |-> n, valid |-> valid]

ExprIndexGet(target, index) == [kind |-> "ExprIndexGet", target |-> target, index |-> index]

Span(at, part) == [at |-> at, part |-> part]

Inst(op, arg, span) == [op |-> op, arg |-> arg, span |-> span]

\* The argument of an instruction: none, or one number (an offset, a slot).
NoArg == <<>>

\* The compiler: the instructions assembled (asm), the chain of scopes, the
\* static strings of the unit, and the error the compile has stopped with.
\* A scope is the sequence of its slots, a name or Anon each; the offset of a
\* slot is its place in the frame, the slots of the outer scopes first.
Anon == "_"

Failed(c) == c.err # "none"

Fail(c, error) == IF Failed(c) THEN c ELSE [c EXCEPT !.err = error]

\* Assembly::push
push(c, inst) == IF Failed(c) THEN c ELSE [c EXCEPT !.asm = Append(@, inst)]

RECURSIVE Flatten(_)
Flatten(scopes) ==
    IF scopes = <<>> THEN <<>> ELSE Flatten(SubSeq(scopes, 1, Len(scopes) - 1)) \o scopes[Len(scopes)]

\* Scopes::decl_anon: one more anonymous slot in the last scope
decl_anon(c) ==
    IF Failed(c) THEN c
    ELSE IF c.scopes = <<>> THEN Fail(c, "Internal")
    ELSE [c EXCEPT !.scopes[Len(c.scopes)] = Append(@, Anon)]

\* Scopes::undecl_anon: the top n slots of the last scope, which must be
\* anonymous, are given up
undecl_anon(c, n) ==
    IF Failed(c) THEN c
    ELSE IF c.scopes = <<>> THEN Fail(c, "Internal")
    ELSE LET s == c.scopes[Len(c.scopes)] IN
         IF Len(s) < n \/ \E i \in (Len(s) - n + 1)..Len(s) : s[i] # Anon
         THEN Fail(c, "Internal")
         ELSE [c EXCEPT !.scopes[Len(c.scopes)] = SubSeq(s, 1, Len(s) - n)]

\* Scopes::push of a child of the last scope
push_scope(c) ==
    IF Failed(c) THEN c
    ELSE IF c.scopes = <<>> THEN Fail(c, "Internal")
    ELSE [c EXCEPT !.scopes = Append(@, <<>>)]

\* Scopes::pop: the guard is the number of scopes push left
pop_scope(c, guard) ==
    IF Failed(c) THEN c
    ELSE IF Len(c.scopes) # guard \/ guard = 0 THEN Fail(c, "Internal")
    ELSE [c EXCEPT !.scopes = SubSeq(@, 1, Len(@) - 1)]

\* Scopes::get_var: the last declaration of the name in the innermost scope
\* that declares it
get_var(c, name) ==
    LET slots == Flatten(c.scopes)
        found == {i \in 1..Len(slots) : slots[i] = name}
        inner(i) == CHOOSE k \in 1..Len(c.scopes) : Len(Flatten(SubSeq(c.scopes, 1, k))) >= i
        best == CHOOSE i \in found :
                    \A j \in found : inner(j) < inner(i) \/ (inner(j) = inner(i) /\ j <= i) IN
    IF found = {} THEN [found |-> FALSE, offset |-> 0]
    ELSE [found |-> TRUE, offset |-> best - 1]

\* Unit::new_static_string: the slot of the string, a new one if it is new
StringSlot(strings, name) ==
    IF \E i \in 1..Len(strings) : strings[i] = name
    THEN (CHOOSE i \in 1..Len(strings) : strings[i] = name) - 1
    ELSE Len(strings)

new_static_string(c, name) ==
    IF Failed(c) \/ \E i \in 1..Len(c.strings) : c.strings[i] = name THEN c
    ELSE [c EXCEPT !.strings = Append(@, name)]

\* The expressions compiled elsewhere: a literal and a path.
compile_lit(c, needs, at) ==
    IF ~needs_value(needs) THEN c
    ELSE push(c, Inst("Integer", NoArg, Span(at, "expr")))

compile_path(c, e, needs, at) ==
    IF Failed(c) \/ ~needs_value(needs) THEN c
    ELSE IF needs = "Type" THEN push(c, Inst("Type", NoArg, Span(at, "expr")))
    ELSE IF ~e.bare THEN push(c, Inst("Fn", NoArg, Span(at, "expr")))
    ELSE LET var == get_var(c, e.first) IN
         IF var.found THEN push(c, Inst("Copy", <<var.offset>>, Span(at, "expr")))
         ELSE Fail(c, "MissingLocal")

\* A rhs_needs_of that asks for a value whatever the operator.
rhs_needs_always_value(op) == "Value"

\* rhs_needs_of
rhs_needs_of(op) == IF op \in {"Is", "IsNot"} THEN "Type" ELSE "Value"

\* The instruction pushed for a binary operator (expr_binary.rs 35-99).
BinOpInst ==
    [Add |-> "Add", Sub |-> "Sub", Div |-> "Div", Mul |-> "Mul", Rem |-> "Rem",
     Eq |-> "Eq", Neq |-> "Neq", Lt |-> "Lt", Gt |-> "Gt", Lte |-> "Lte",
     Gte |-> "Gte", Is |-> "Is", IsNot |-> "IsNot", And |-> "And", Or |-> "Or",
     BitAnd |-> "BitAnd", BitXor |-> "BitXor", BitOr |-> "BitOr",
     Shl |-> "Shl", Shr |-> "Shr"]

\* A table in which the shift assignments share an instruction.
AssignOpInstShifts ==
    [AddAssign |-> "AddAssign", SubAssign |-> "SubAssign", MulAssign |-> "MulAssign",
     DivAssign |-> "DivAssign", RemAssign |-> "RemAssign",
     BitAndAssign |-> "BitAndAssign", BitXorAssign |-> "BitXorAssign",
     BitOrAssign |-> "BitOrAssign", ShlAssign |-> "ShlAssign", ShrAssign |-> "ShlAssign"]

\* compile_assign_binop, lines 218-252: the instruction of a compound operator
AssignOpInst ==
    [AddAssign |-> "AddAssign", SubAssign |-> "SubAssign", MulAssign |-> "MulAssign",
     DivAssign |-> "DivAssign", RemAssign |-> "RemAssign",
     BitAndAssign |-> "BitAndAssign", BitXorAssign |-> "BitXorAssign",
     BitOrAssign |-> "BitOrAssign", ShlAssign |-> "ShlAssign", ShrAssign |-> "ShrAssign"]

\* What the compiler had when it entered the compile of the expression at: the
\* slots its scopes held and the instructions it had assembled.  (A record
\* kept beside the compile; the compiler does not read it.)
Enter(c, at) ==
    [c EXCEPT !.entered = Append(@, [at |-> at, slots |-> Len(Flatten(c.scopes)),
                                     code |-> Len(c.asm)])]

RECURSIVE compile(_, _, _, _)
RECURSIVE compile_expr_binary(_, _, _, _)
RECURSIVE compile_assign_binop(_, _, _, _)
RECURSIVE compile_expr_index_get(_, _, _, _)

\* Compile<(&ast::Expr, Needs)>: by the kind of the expression.  A field
\* access is compiled here only as the left of an assignment.
compile(c, e, needs, at) ==
    IF Failed(c) THEN c
    ELSE CASE e.kind = "Lit" -> compile_lit(Enter(c, at), needs, at)
           [] e.kind = "Path" -> compile_path(Enter(c, at), e, needs, at)
           [] e.kind = "ExprBinary" -> compile_expr_binary(Enter(c, at), e, needs, at)
           [] e.kind = "ExprIndexGet" -> compile_expr_index_get(Enter(c, at), e, needs, at)
           [] OTHER -> Fail(c, "NotModelled")

\* A binary compile that records the operator's instruction at the operator
\* token.
compile_expr_binary_op_span(c, e, needs, at) ==
    LET span == Span(at, "expr") IN
    IF Failed(c) THEN c
    ELSE IF is_assign(e.op) THEN compile_assign_binop(c, e, needs, at)
    ELSE LET c1 == decl_anon(compile(c, e.lhs, "Value", Append(at, "lhs")))
             c2 == decl_anon(compile(c1, e.rhs, rhs_needs_of(e.op), Append(at, "rhs")))
             c3 == IF e.op \in DOMAIN BinOpInst
                   THEN push(c2, Inst(BinOpInst[e.op], NoArg, Span(at, "op")))
                   ELSE Fail(c2, "UnsupportedBinaryOp")
             c4 == IF ~needs_value(needs) THEN push(c3, Inst("Pop", NoArg, span)) ELSE c3 IN
         undecl_anon(c4, 2)

\* A binary compile that declares the slot of lhs only after rhs is compiled.
compile_expr_binary_declares_late(c, e, needs, at) ==
    LET span == Span(at, "expr") IN
    IF Failed(c) THEN c
    ELSE IF is_assign(e.op) THEN compile_assign_binop(c, e, needs, at)
    ELSE LET c1 == compile(c, e.lhs, "Value", Append(at, "lhs"))
             c2 == decl_anon(decl_anon(compile(c1, e.rhs, rhs_needs_of(e.op), Append(at, "rhs"))))
             c3 == IF e.op \in DOMAIN BinOpInst
                   THEN push(c2, Inst(BinOpInst[e.op], NoArg, span))
                   ELSE Fail(c2, "UnsupportedBinaryOp")
             c4 == IF ~needs_value(needs) THEN push(c3, Inst("Pop", NoArg, span)) ELSE c3 IN
         undecl_anon(c4, 2)

\* Compile<(&ast::ExprBinary, Needs)>
compile_expr_binary(c, e, needs, at) ==
    LET span == Span(at, "expr") IN
    IF Failed(c) THEN c
    ELSE IF is_assign(e.op) THEN compile_assign_binop(c, e, needs, at)
    ELSE LET c1 == decl_anon(compile(c, e.lhs, "Value", Append(at, "lhs")))
             c2 == decl_anon(compile(c1, e.rhs, rhs_needs_of(e.op), Append(at, "rhs")))
             c3 == IF e.op \in DOMAIN BinOpInst
                   THEN push(c2, Inst(BinOpInst[e.op], NoArg, span))
                   ELSE Fail(c2, "UnsupportedBinaryOp")
             c4 == IF ~needs_value(needs) THEN push(c3, Inst("Pop", NoArg, span)) ELSE c3 IN
         undecl_anon(c4, 2)

\* A match whose first arm takes every path, bare or not.
AssignTargetAnyPath(lhs) ==
    IF lhs.kind = "Path" THEN "local"
    ELSE IF lhs.kind = "ExprFieldAccess" /\ lhs.field = "Ident" THEN "field"
    ELSE IF lhs.kind = "ExprFieldAccess" /\ lhs.field = "LitNumber" THEN "tuple_index"
    ELSE "unsupported"

\* compile_assign_binop, lines 132-187: the arm of the match an lhs takes
AssignTarget(lhs) ==
    IF lhs.kind = "Path" /\ lhs.bare THEN "local"
    ELSE IF lhs.kind = "ExprFieldAccess" /\ lhs.field = "Ident" THEN "field"
    ELSE IF lhs.kind = "ExprFieldAccess" /\ lhs.field = "LitNumber" THEN "tuple_index"
    ELSE "unsupported"

\* An assignment to a local that replaces the local before the value is there.
AssignLocalReplaceFirst(c, lhs, rhs, at) ==
    LET var == get_var(c, lhs.first)
        c1 == push(c, Inst("Replace", <<var.offset>>, Span(at, "join"))) IN
    IF ~var.found THEN Fail(c, "MissingLocal")
    ELSE compile(c1, rhs, "Value", Append(at, "rhs"))

\* <var> = <value> (lines 134-144)
AssignLocal(c, lhs, rhs, at) ==
    LET c1 == compile(c, rhs, "Value", Append(at, "rhs"))
        var == get_var(c1, lhs.first) IN
    IF Failed(c1) THEN c1
    ELSE IF ~var.found THEN Fail(c1, "MissingLocal")
    ELSE push(c1, Inst("Replace", <<var.offset>>, Span(at, "join")))

\* A field assignment that pushes the key before the value.
AssignFieldKeyFirst(c, lhs, rhs, at) ==
    LET fspan == Span(Append(at, "lhs"), "field")
        c0 == new_static_string(c, lhs.name)
        index == StringSlot(c0.strings, lhs.name)
        c1 == decl_anon(push(c0, Inst("String", <<index>>, fspan)))
        c2 == decl_anon(compile(c1, rhs, "Value", Append(at, "rhs")))
        c3 == compile(c2, lhs.expr, "Value", Append(Append(at, "lhs"), "expr"))
        c4 == push(c3, Inst("IndexSet", NoArg, fspan)) IN
    undecl_anon(c4, 2)

\* <expr>.<field> = <value> (lines 149-168)
AssignField(c, lhs, rhs, at) ==
    LET fspan == Span(Append(at, "lhs"), "field")
        c0 == new_static_string(c, lhs.name)
        index == StringSlot(c0.strings, lhs.name)
        c1 == decl_anon(compile(c0, rhs, "Value", Append(at, "rhs")))
        c2 == decl_anon(push(c1, Inst("String", <<index>>, fspan)))
        c3 == compile(c2, lhs.expr, "Value", Append(Append(at, "lhs"), "expr"))
        c4 == push(c3, Inst("IndexSet", NoArg, fspan)) IN
    undecl_anon(c4, 2)

\* A tuple-index assignment that looks at the number after it has compiled
\* the value.
AssignTupleIndexChecksLate(c, lhs, rhs, at) ==
    LET fspan == Span(Append(at, "lhs"), "field")
        c1 == decl_anon(compile(c, rhs, "Value", Append(at, "rhs"))) IN
    IF ~lhs.valid THEN Fail(c1, "UnsupportedTupleIndex")
    ELSE LET c2 == compile(c1, lhs.expr, "Value", Append(Append(at, "lhs"), "expr"))
             c3 == push(c2, Inst("TupleIndexSet", <<lhs.number>>, fspan)) IN
         undecl_anon(c3, 1)

\* <expr>.<number> = <value> (lines 169-183)
AssignTupleIndex(c, lhs, rhs, at) ==
    LET fspan == Span(Append(at, "lhs"), "field") IN
    IF ~lhs.valid THEN Fail(c, "UnsupportedTupleIndex")
    ELSE LET c1 == decl_anon(compile(c, rhs, "Value", Append(at, "rhs")))
             c2 == compile(c1, lhs.expr, "Value", Append(Append(at, "lhs"), "expr"))
             c3 == push(c2, Inst("TupleIndexSet", <<lhs.number>>, fspan)) IN
         undecl_anon(c3, 1)

\* compile_assign_binop, lines 131-191: plain assignment
Assign(c, lhs, rhs, at) ==
    LET target == AssignTarget(lhs) IN
    IF target = "local" THEN AssignLocal(c, lhs, rhs, at)
    ELSE IF target = "field" THEN AssignField(c, lhs, rhs, at)
    ELSE IF target = "tuple_index" THEN AssignTupleIndex(c, lhs, rhs, at)
    ELSE Fail(c, "UnsupportedAssignExpr")

\* A compound assignment that takes a field of an object for its lhs and
\* writes the rhs to it the way plain assignment does.
CompoundAssignField(c, op, lhs, rhs, at) ==
    LET span == Span(at, "join")
        var == get_var(c, lhs.first) IN
    IF lhs.kind = "ExprFieldAccess" /\ lhs.field = "Ident" THEN AssignField(c, lhs, rhs, at)
    ELSE IF ~(lhs.kind = "Path" /\ lhs.bare) THEN Fail(c, "UnsupportedBinaryExpr")
    ELSE IF ~var.found THEN Fail(c, "MissingLocal")
    ELSE LET c1 == compile(c, rhs, "Value", Append(at, "rhs")) IN
         IF op \in DOMAIN AssignOpInst
         THEN push(c1, Inst(AssignOpInst[op], <<var.offset>>, span))
         ELSE Fail(c1, "UnsupportedBinaryExpr")

\* A compound assignment that reports an unsupported lhs as plain assignment
\* does.
CompoundAssignAsAssign(c, op, lhs, rhs, at) ==
    LET span == Span(at, "join")
        var == get_var(c, lhs.first) IN
    IF ~(lhs.kind = "Path" /\ lhs.bare) THEN Fail(c, "UnsupportedAssignExpr")
    ELSE IF ~var.found THEN Fail(c, "MissingLocal")
    ELSE LET c1 == compile(c, rhs, "Value", Append(at, "rhs")) IN
         IF op \in DOMAIN AssignOpInst
         THEN push(c1, Inst(AssignOpInst[op], <<var.offset>>, span))
         ELSE Fail(c1, "UnsupportedBinaryExpr")

\* compile_assign_binop, lines 192-253: an assign operator other than =
CompoundAssign(c, op, lhs, rhs, at) ==
    LET span == Span(at, "join")
        var == get_var(c, lhs.first) IN
    IF ~(lhs.kind = "Path" /\ lhs.bare) THEN Fail(c, "UnsupportedBinaryExpr")
    ELSE IF ~var.found THEN Fail(c, "MissingLocal")
    ELSE LET c1 == compile(c, rhs, "Value", Append(at, "rhs")) IN
         IF op \in DOMAIN AssignOpInst
         THEN push(c1, Inst(AssignOpInst[op], <<var.offset>>, span))
         ELSE Fail(c1, "UnsupportedBinaryExpr")

\* An assignment that leaves its Unit whatever the needs.
compile_assign_binop_always_unit(c, e, needs, at) ==
    LET c1 == IF e.op = "Assign"
              THEN Assign(c, e.lhs, e.rhs, at)
              ELSE CompoundAssign(c, e.op, e.lhs, e.rhs, at) IN
    IF Failed(c) THEN c
    ELSE push(c1, Inst("Unit", NoArg, Span(at, "join")))

\* compile_assign_binop
compile_assign_binop(c, e, needs, at) ==
    LET c1 == IF e.op = "Assign"
              THEN Assign(c, e.lhs, e.rhs, at)
              ELSE CompoundAssign(c, e.op, e.lhs, e.rhs, at) IN
    IF Failed(c) THEN c
    ELSE IF needs_value(needs) THEN push(c1, Inst("Unit", NoArg, Span(at, "join")))
    ELSE c1

\* An index get that compiles the target before the index.
compile_expr_index_get_target_first(c, e, needs, at) ==
    LET span == Span(at, "expr")
        c0 == push_scope(c)
        guard == Len(c0.scopes)
        c1 == decl_anon(compile(c0, e.target, "Value", Append(at, "target")))
        c2 == decl_anon(compile(c1, e.index, "Value", Append(at, "index")))
        c3 == push(c2, Inst("IndexGet", NoArg, span))
        c4 == IF ~needs_value(needs) THEN push(c3, Inst("Pop", NoArg, span)) ELSE c3 IN
    pop_scope(c4, guard)

\* An index get that leaves the scope it pushed.
compile_expr_index_get_no_pop(c, e, needs, at) ==
    LET span == Span(at, "expr")
        c0 == push_scope(c)
        c1 == decl_anon(compile(c0, e.index, "Value", Append(at, "index")))
        c2 == decl_anon(compile(c1, e.target, "Value", Append(at, "target")))
        c3 == push(c2, Inst("IndexGet", NoArg, span)) IN
    IF ~needs_value(needs) THEN push(c3, Inst("Pop", NoArg, span)) ELSE c3

\* Compile<(&ast::ExprIndexGet, Needs)>
compile_expr_index_get(c, e, needs, at) ==
    LET span == Span(at, "expr")
        c0 == push_scope(c)
        guard == Len(c0.scopes)
        c1 == decl_anon(compile(c0, e.index, "Value", Append(at, "index")))
        c2 == decl_anon(compile(c1, e.target, "Value", Append(at, "target")))
        c3 == push(c2, Inst("IndexGet", NoArg, span))
        c4 == IF ~needs_value(needs) THEN push(c3, Inst("Pop", NoArg, span)) ELSE c3 IN
    pop_scope(c4, guard)

\* The expressions given to the compiler: every operator over operands that
\* are literals, paths and one level of binary, assignment and index-get
\* expressions, and, on the left of the assign operators, field and tuple
\* accesses as well.
Px == Path("x", TRUE)

Py == Path("y", TRUE)

\* a name no scope declares
Pz == Path("z", TRUE)

\* a path with further components
Pq == Path("x", FALSE)

Atoms == {Lit, Px, Py, Pz, Pq}

Accesses_of(es) ==
    {FieldIdent(e, name) : e \in es, name \in {"a", "b"}}
        \cup {FieldNumber(e, 1, valid) : e \in es, valid \in BOOLEAN}

Nested ==
    {ExprBinary(op, l, r) : op \in {"Add", "Is"}, l \in {Px, Pz}, r \in {Lit, Py}}
        \cup {ExprBinary(op, l, Lit) : op \in {"Assign", "AddAssign"},
                                       l \in {Px, Lit} \cup Accesses_of({Py})}
        \cup {ExprIndexGet(Px, i) : i \in {Lit, Pz}}

Operands == Atoms \cup Nested

AssignTargets ==
    Operands \cup Accesses_of({Px, Pz, ExprIndexGet(Px, Lit), ExprBinary("Add", Px, Lit)})

Inputs ==
    {ExprBinary(op, l, r) : op \in NonAssignOps, l \in Operands, r \in Operands}
        \cup {ExprBinary(op, l, r) : op \in {"Assign"} \cup CompoundOps,
                                     l \in AssignTargets, r \in Operands}
        \cup {ExprIndexGet(t, i) : t \in Operands, i \in Operands}

\* The scopes the expression is compiled in: a function body declaring x and
\* y, and a block inside it holding a temporary and a second x.
ScopeChains == {<< <<"x", "y">> >>, << <<"x", "y">>, <<Anon, "x">> >>}

\* The static strings the unit has already.
StringTables == {<<>>, <<"b">>}

NewCompiler(scopes, strings) ==
    [asm |-> <<>>, scopes |-> scopes, strings |-> strings, err |-> "none", entered |-> <<>>]

\* The compiler is given an expression and compiles it.
CompileExpr ==
    /\ ~comp.done
    /\ comp' = [comp EXCEPT !.after = compile(comp.before, comp.expr, comp.needs, <<>>),
                            !.done = TRUE]
    /\ UNCHANGED <<rtVars, cliVars, parVars, vmVars, escVars>>

\* Where spans lie in the source.  Positions count tokens from the first token
\* of the expression compiled; an interval is half-open.  Width is the number
\* of tokens of an expression: lhs op rhs, e . field, target [ index ], and
\* first :: next for a path with further components.
RECURSIVE Width(_)
Width(e) ==
    CASE e.kind = "Lit" -> 1
      [] e.kind = "Path" -> IF e.bare THEN 1 ELSE 3
      [] e.kind = "ExprBinary" -> Width(e.lhs) + 1 + Width(e.rhs)
      [] e.kind = "ExprFieldAccess" -> Width(e.expr) + 2
      [] e.kind = "ExprIndexGet" -> Width(e.target) + Width(e.index) + 2

Interval(start, end) == [start |-> start, end |-> end]

\* Span::join
join(a, b) ==
    Interval(IF a.start < b.start THEN a.start ELSE b.start,
             IF a.end > b.end THEN a.end ELSE b.end)

\* The interval of a part of the node e that starts at token start: the whole
\* node (span()), lhs.span().join(rhs.span()), the operator token, the field
\* of a field access.
PartOf(e, start, part) ==
    CASE part = "expr" -> Interval(start, start + Width(e))
      [] part = "join" ->
            join(Interval(start, start + Width(e.lhs)),
                 Interval(start + Width(e.lhs) + 1, start + Width(e)))
      [] part = "op" -> Interval(start + Width(e.lhs), start + Width(e.lhs) + 1)
      [] part = "field" -> Interval(start + Width(e.expr) + 1, start + Width(e))

\* The interval a span of the compiler names: the node is found by following
\* the places in at from the root e, which starts at token start.
RECURSIVE Resolve(_, _, _)
Resolve(e, start, span) ==
    IF span.at = <<>> THEN PartOf(e, start, span.part)
    ELSE LET rest == Span(Tail(span.at), span.part)
             place == Head(span.at) IN
         CASE place = "lhs" -> Resolve(e.lhs, start, rest)
           [] place = "rhs" -> Resolve(e.rhs, start + Width(e.lhs) + 1, rest)
           [] place = "expr" -> Resolve(e.expr, start, rest)
           [] place = "target" -> Resolve(e.target, start, rest)
           [] place = "index" -> Resolve(e.index, start + Width(e.target) + 1, rest)

\* What an instruction does to the operand stack of the virtual machine: how
\* many values it pops and how many it pushes.
Pops(op) ==
    CASE op \in {"Integer", "Copy", "Fn", "Type", "String", "Unit"} -> 0
      [] op = "IndexSet" -> 3
      [] op = "TupleIndexSet" -> 2
      [] op = "IndexGet" -> 2
      [] op \in {"Pop", "Replace"} -> 1
      [] op \in CompoundOps -> 1
      [] OTHER -> 2

Pushes(op) ==
    IF op \in {"Pop", "Replace", "IndexSet", "TupleIndexSet"} \cup CompoundOps THEN 0 ELSE 1

\* The net number of values a sequence of instructions leaves on the stack.
RECURSIVE Depth(_)
Depth(asm) ==
    IF asm = <<>> THEN 0
    ELSE Depth(SubSeq(asm, 1, Len(asm) - 1)) - Pops(asm[Len(asm)].op) + Pushes(asm[Len(asm)].op)

\* No instruction of the sequence pops a value the sequence has not pushed.
SelfContained(asm) ==
    \A k \in 1..Len(asm) : Depth(SubSeq(asm, 1, k - 1)) >= Pops(asm[k].op)

\* ------------------------------------------------------- rune: parsing nodes
\* A token is a kind and a span.  The kind of a byte-string literal carries its
\* literal source: the text of the token (escaped or not) or an id of Storage.
NoSource == [tag |-> "none", escaped |-> FALSE, id |-> 0]

Text(escaped) == [tag |-> "Text", escaped |-> escaped, id |-> 0]

Synthetic(id) == [tag |-> "Synthetic", escaped |-> FALSE, id |-> id]

Kind(name, lit) == [name |-> name, source |-> lit]

K(name) == Kind(name, NoSource)

NoKind == K("none")

\* The ids a synthetic literal may carry, and the bytes Storage keeps for one.
SyntheticIds == 0..MaxId

StoredBytes(id) == [from |-> "storage", id |-> id, span |-> Interval(0, 0)]

\* The lexer: the tokens of a text given by the kinds of its tokens, which are
\* written with one blank between them.
TokenWidth(kind) ==
    CASE kind.name = "Return" -> 6
      [] kind.name = "Scope" -> 2
      [] kind.name = "LitByteStr" -> 4
      [] OTHER -> 1

RECURSIVE TextLen(_)
TextLen(kinds) ==
    IF kinds = <<>> THEN 0
    ELSE TextLen(SubSeq(kinds, 1, Len(kinds) - 1)) + TokenWidth(kinds[Len(kinds)])
            + (IF Len(kinds) > 1 THEN 1 ELSE 0)

Lex(kinds) ==
    [i \in 1..Len(kinds) |->
        [kind |-> kinds[i],
         span |-> Interval(TextLen(SubSeq(kinds, 1, i)) - TokenWidth(kinds[i]),
                           TextLen(SubSeq(kinds, 1, i)))]]

\* What a parse gives: a node and the place of the next token, or an error.
NoNode == [kind |-> "none"]

NoParseError == [kind |-> "none", actual |-> NoKind, span |-> Interval(0, 0)]

ParseError(kind, actual, span) == [kind |-> kind, actual |-> actual, span |-> span]

ParseOk(node, pos) == [ok |-> TRUE, node |-> node, pos |-> pos, err |-> NoParseError]

ParseErr(err, pos) == [ok |-> FALSE, node |-> NoNode, pos |-> pos, err |-> err]

\* The span of the end of the input.
EndSpan(toks) ==
    IF toks = <<>> THEN Interval(0, 0)
    ELSE Interval(toks[Len(toks)].span.end, toks[Len(toks)].span.end)

\* let x = v; F(x): v is worked out once and F goes on with its value.
Bind(v, F(_)) == CHOOSE r \in {F(x) : x \in {v}} : TRUE

\* Parser::token_next: the next token, or an error at the end of the input
token_next(toks, pos) ==
    IF pos > Len(toks) THEN ParseErr(ParseError("UnexpectedEof", NoKind, EndSpan(toks)), pos)
    ELSE ParseOk(toks[pos], pos + 1)

\* Parser::peek::<T> for a token T: false at the end of the input
peek(toks, pos, name) == pos <= Len(toks) /\ toks[pos].kind.name = name

\* Parser::parse::<T> for a token T
parse_token(toks, pos, name) ==
    Bind(token_next(toks, pos), LAMBDA t :
        IF ~t.ok THEN t
        ELSE IF t.node.kind.name = name THEN t
        ELSE ParseErr(ParseError("ExpectedToken", t.node.kind, t.node.span), pos))

\* Span::trim_start, Span::trim_end
trim_start(span, n) ==
    Interval(IF span.start + n < span.end THEN span.start + n ELSE span.end, span.end)

trim_end(span, n) ==
    Interval(span.start, IF span.end - n > span.start THEN span.end - n ELSE span.start)

\* LitByteStr::span
lit_byte_str_span(node) == node.token.span

\* A parse that takes a string literal for a byte-string literal.
parse_lit_byte_str_any_string(toks, pos) ==
    Bind(token_next(toks, pos), LAMBDA t :
        IF ~t.ok THEN t
        ELSE IF t.node.kind.name \in {"LitByteStr", "LitStr"}
        THEN ParseOk([kind |-> "LitByteStr", token |-> t.node, source |-> t.node.kind.source],
                     t.pos)
        ELSE ParseErr(ParseError("ExpectedString", t.node.kind, t.node.span), t.pos))

\* Parse for LitByteStr
parse_lit_byte_str(toks, pos) ==
    Bind(token_next(toks, pos), LAMBDA t :
        IF ~t.ok THEN t
        ELSE IF t.node.kind.name = "LitByteStr"
        THEN ParseOk([kind |-> "LitByteStr", token |-> t.node, source |-> t.node.kind.source],
                     t.pos)
        ELSE ParseErr(ParseError("ExpectedString", t.node.kind, t.node.span), t.pos))

\* A span of the path that ends with the first of the further components.
path_span_first(node) ==
    IF node.rest = <<>> THEN node.first.span
    ELSE join(node.first.span, node.rest[1].ident.span)

\* Path::span
path_span(node) ==
    IF node.rest = <<>> THEN node.first.span
    ELSE join(node.first.span, node.rest[Len(node.rest)].ident.span)

\* Parse for Vec<(Scope, Ident)>: pairs for as long as a :: is next
RECURSIVE parse_path_rest(_, _, _)
parse_path_rest(toks, pos, rest) ==
    IF ~peek(toks, pos, "Scope") THEN ParseOk(rest, pos)
    ELSE Bind(parse_token(toks, pos + 1, "Ident"), LAMBDA ident :
             IF ~ident.ok THEN ident
             ELSE parse_path_rest(toks, ident.pos,
                                  Append(rest, [scope |-> toks[pos], ident |-> ident.node])))

\* Parse for Path, Path::parse_with_first
parse_path(toks, pos) ==
    Bind(parse_token(toks, pos, "Ident"), LAMBDA first :
        IF ~first.ok THEN first
        ELSE Bind(parse_path_rest(toks, first.pos, <<>>), LAMBDA rest :
                 IF ~rest.ok THEN rest
                 ELSE ParseOk([kind |-> "Path", first |-> first.node, rest |-> rest.node],
                              rest.pos)))

\* LitVec::span
lit_vec_span(node) == join(node.open.span, node.close.span)

\* Expr::is_const: a literal is, a path is not, a vector is as it was flagged
expr_is_const(node) ==
    CASE node.kind \in {"LitNumber", "LitByteStr"} -> TRUE
      [] node.kind = "LitVec" -> node.is_const
      [] OTHER -> FALSE

\* Expr::span
expr_span(node) ==
    CASE node.kind = "LitNumber" -> node.token.span
      [] node.kind = "LitByteStr" -> lit_byte_str_span(node)
      [] node.kind = "Path" -> path_span(node)
      [] node.kind = "LitVec" -> lit_vec_span(node)

\* Peek for Expr: the tokens an expression starts with
peek_expr(toks, pos) ==
    pos <= Len(toks) /\ toks[pos].kind.name \in {"LitNumber", "LitByteStr", "Ident", "Open"}

RECURSIVE parse_expr(_, _)
RECURSIVE parse_lit_vec(_, _)
RECURSIVE parse_lit_vec_items(_, _, _, _)

\* The items of a vector whose flag is that of its last item.
parse_lit_vec_items_last(toks, pos, items, is_const) ==
    IF peek(toks, pos, "Close")
    THEN [ok |-> TRUE, items |-> items, is_const |-> is_const, pos |-> pos, err |-> NoParseError]
    ELSE Bind(parse_expr(toks, pos), LAMBDA expr :
             IF ~expr.ok
             THEN [ok |-> FALSE, items |-> items, is_const |-> is_const, pos |-> expr.pos,
                   err |-> expr.err]
             ELSE Bind(expr_is_const(expr.node), LAMBDA flag :
                      IF peek(toks, expr.pos, "Comma")
                      THEN parse_lit_vec_items(toks, expr.pos + 1, Append(items, expr.node), flag)
                      ELSE [ok |-> TRUE, items |-> Append(items, expr.node), is_const |-> flag,
                            pos |-> expr.pos, err |-> NoParseError]))

\* Parse for LitVec, lines 50-64: the loop.  Until a ] is next an expression
\* is parsed, which clears the flag if it is not const; the loop goes on after
\* a comma and ends without one.
parse_lit_vec_items(toks, pos, items, is_const) ==
    IF peek(toks, pos, "Close")
    THEN [ok |-> TRUE, items |-> items, is_const |-> is_const, pos |-> pos, err |-> NoParseError]
    ELSE Bind(parse_expr(toks, pos), LAMBDA expr :
             IF ~expr.ok
             THEN [ok |-> FALSE, items |-> items, is_const |-> is_const, pos |-> expr.pos,
                   err |-> expr.err]
             ELSE Bind(IF ~expr_is_const(expr.node) THEN FALSE ELSE is_const, LAMBDA flag :
                      IF peek(toks, expr.pos, "Comma")
                      THEN parse_lit_vec_items(toks, expr.pos + 1, Append(items, expr.node), flag)
                      ELSE [ok |-> TRUE, items |-> Append(items, expr.node), is_const |-> flag,
                            pos |-> expr.pos, err |-> NoParseError]))

\* Parse for LitVec
parse_lit_vec(toks, pos) ==
    Bind(parse_token(toks, pos, "Open"), LAMBDA open :
        IF ~open.ok THEN open
        ELSE Bind(parse_lit_vec_items(toks, open.pos, <<>>, TRUE), LAMBDA items :
                 IF ~items.ok THEN ParseErr(items.err, items.pos)
                 ELSE Bind(parse_token(toks, items.pos, "Close"), LAMBDA close :
                          IF ~close.ok THEN close
                          ELSE ParseOk([kind |-> "LitVec", open |-> open.node,
                                        items |-> items.items, close |-> close.node,
                                        is_const |-> items.is_const], close.pos))))

\* Parse for Expr, as far as vectors need it: a number, a byte string, a path
\* or a vector
parse_expr(toks, pos) ==
    IF pos > Len(toks) THEN ParseErr(ParseError("UnexpectedEof", NoKind, EndSpan(toks)), pos)
    ELSE CASE toks[pos].kind.name = "LitNumber" ->
                 ParseOk([kind |-> "LitNumber", token |-> toks[pos]], pos + 1)
           [] toks[pos].kind.name = "LitByteStr" -> parse_lit_byte_str(toks, pos)
           [] toks[pos].kind.name = "Ident" -> parse_path(toks, pos)
           [] toks[pos].kind.name = "Open" -> parse_lit_vec(toks, pos)
           [] OTHER -> ParseErr(ParseError("ExpectedExpr", toks[pos].kind, toks[pos].span), pos)

\* ExprReturn::span
expr_return_span(node) ==
    IF node.expr # <<>> THEN join(node.return_.span, expr_span(node.expr[1]))
    ELSE node.return_.span

\* Parse for ExprReturn
parse_expr_return(toks, pos) ==
    Bind(parse_token(toks, pos, "Return"), LAMBDA return_ :
        IF ~return_.ok THEN return_
        ELSE IF ~peek_expr(toks, return_.pos)
        THEN ParseOk([kind |-> "ExprReturn", return_ |-> return_.node, expr |-> <<>>],
                     return_.pos)
        ELSE Bind(parse_expr(toks, return_.pos), LAMBDA expr :
                 IF ~expr.ok THEN expr
                 ELSE ParseOk([kind |-> "ExprReturn", return_ |-> return_.node,
                               expr |-> <<expr.node>>], expr.pos)))

\* What resolving a literal gives: the bytes or an error.
NoBytes == [from |-> "none", id |-> 0, span |-> Interval(0, 0)]

NoResolveError == [kind |-> "none", what |-> "none", id |-> 0, span |-> Interval(0, 0)]

ResolveOk(bytes) == [ok |-> TRUE, bytes |-> bytes, err |-> NoResolveError]

ResolveErr(kind, what, id, span) ==
    [ok |-> FALSE, bytes |-> NoBytes,
     err |-> [kind |-> kind, what |-> what, id |-> id, span |-> span]]

\* A resolve that reads a synthetic literal Storage does not have from the
\* text of its token.
resolve_lit_byte_str_text(node, storage, text) ==
    LET span == node.token.span
        inner == trim_end(trim_start(span, 2), 1) IN
    IF node.source.tag = "Synthetic" /\ node.source.id \in storage
    THEN ResolveOk(StoredBytes(node.source.id))
    ELSE IF inner.end > text.len THEN ResolveErr("BadSlice", "none", 0, inner)
    ELSE IF ~node.source.escaped THEN ResolveOk([from |-> "text", id |-> 0, span |-> inner])
    ELSE IF text.badEscape THEN ResolveErr("BadByteEscape", "none", 0, inner)
    ELSE ResolveOk([from |-> "escaped", id |-> 0, span |-> inner])

\* Resolve for LitByteStr.  Storage is the set of ids it has bytes for; of the
\* source, its length and whether the text has an escape that is none matter.
resolve_lit_byte_str(node, storage, text) ==
    LET span == node.token.span
        inner == trim_end(trim_start(span, 2), 1) IN
    IF node.source.tag = "Synthetic"
    THEN IF node.source.id \in storage
         THEN ResolveOk(StoredBytes(node.source.id))
         ELSE ResolveErr("BadSyntheticId", "byte string", node.source.id, span)
    ELSE IF inner.end > text.len THEN ResolveErr("BadSlice", "none", 0, inner)
    ELSE IF ~node.source.escaped THEN ResolveOk([from |-> "text", id |-> 0, span |-> inner])
    ELSE IF text.badEscape THEN ResolveErr("BadByteEscape", "none", 0, inner)
    ELSE ResolveOk([from |-> "escaped", id |-> 0, span |-> inner])

\* The inputs of the parser: every text of at most so many tokens over the
\* kinds a node is made of (and the kinds it is not).
Seqs(alphabet, n) == UNION {[1..k -> alphabet] : k \in 0..n}

VecKinds == {K("Open"), K("Close"), K("Comma"), K("LitNumber"), K("Ident")}

ReturnKinds == {K("Return"), K("Open"), K("Close"), K("LitNumber"), K("Ident"), K("Scope")}

PathKinds == {K("Ident"), K("Scope"), K("Comma")}

ByteStrKinds ==
    {Kind("LitByteStr", Text(escaped)) : escaped \in BOOLEAN}
        \cup {Kind("LitByteStr", Synthetic(id)) : id \in SyntheticIds}

AllKinds == VecKinds \cup ReturnKinds \cup PathKinds \cup ByteStrKinds \cup {K("LitStr")}

ParseJobs ==
    {[what |-> "LitVec", kinds |-> ks] : ks \in Seqs(VecKinds, MaxTokens)}
        \cup {[what |-> "ExprReturn", kinds |-> ks] : ks \in Seqs(ReturnKinds, MaxShort)}
        \cup {[what |-> "Path", kinds |-> ks] : ks \in Seqs(PathKinds, MaxTokens)}
        \cup {[what |-> "LitByteStr", kinds |-> ks] : ks \in Seqs(AllKinds, 2)}

ParIdle ==
    [what |-> "none", toks |-> <<>>, storage |-> {}, text |-> [len |-> 0, badEscape |-> FALSE],
     done |-> TRUE, result |-> ParseErr(NoParseError, 1),
     resolved |-> TRUE, output |-> ResolveErr("none", "none", 0, Interval(0, 0))]

\* The parser is asked for a node at the first token of the text.
ParseLitVec ==
    /\ par.what = "LitVec" /\ ~par.done
    /\ par' = [par EXCEPT !.result = parse_lit_vec(par.toks, 1), !.done = TRUE]
    /\ UNCHANGED <<rtVars, cliVars, compVars, vmVars, escVars>>

ParseExprReturn ==
    /\ par.what = "ExprReturn" /\ ~par.done
    /\ par' = [par EXCEPT !.result = parse_expr_return(par.toks, 1), !.done = TRUE]
    /\ UNCHANGED <<rtVars, cliVars, compVars, vmVars, escVars>>

ParsePath ==
    /\ par.what = "Path" /\ ~par.done
    /\ par' = [par EXCEPT !.result = parse_path(par.toks, 1), !.done = TRUE]
    /\ UNCHANGED <<rtVars, cliVars, compVars, vmVars, escVars>>

ParseLitByteStr ==
    /\ par.what = "LitByteStr" /\ ~par.done
    /\ par' = [par EXCEPT !.result = parse_lit_byte_str(par.toks, 1), !.done = TRUE]
    /\ UNCHANGED <<rtVars, cliVars, compVars, vmVars, escVars>>

\* The literal parsed is resolved against Storage and the source.
ResolveLitByteStr ==
    /\ par.what = "LitByteStr" /\ par.done /\ par.result.ok /\ ~par.resolved
    /\ par' = [par EXCEPT !.output = resolve_lit_byte_str(par.result.node, par.storage, par.text),
                          !.resolved = TRUE]
    /\ UNCHANGED <<rtVars, cliVars, compVars, vmVars, escVars>>

\* ------------------------------------------- rune: the text of a byte string
\* The characters of a literal, by their code points: A, n, the backslash, and
\* two characters outside ASCII, e with acute (U+00E9) and hiragana a (U+3042).
Chars == {65, 110, 92, 233, 12354}

\* str::as_bytes of one character: its UTF-8 encoding
Utf8(ch) ==
    IF ch < 128 THEN << ch >>
    ELSE IF ch < 2048 THEN << 192 + (ch \div 64), 128 + (ch % 64) >>
    ELSE << 224 + (ch \div 4096), 128 + ((ch \div 64) % 64), 128 + (ch % 64) >>

\* str::as_bytes
RECURSIVE as_bytes(_)
as_bytes(chars) ==
    IF chars = <<>> THEN <<>> ELSE Utf8(Head(chars)) \o as_bytes(Tail(chars))

\* `c as u8`: the low eight bits of the code point
as_u8(ch) == ch % 256

\* ast::utils::parse_byte_escape, the backslash read already: the next
\* character names the byte (n the line feed, the backslash itself); any other
\* character, or none, is an error.
parse_byte_escape(rest) ==
    IF rest = <<>> THEN [ok |-> FALSE, byte |-> 0, rest |-> rest]
    ELSE IF Head(rest) = 110 THEN [ok |-> TRUE, byte |-> 10, rest |-> Tail(rest)]
    ELSE IF Head(rest) = 92 THEN [ok |-> TRUE, byte |-> 92, rest |-> Tail(rest)]
    ELSE [ok |-> FALSE, byte |-> 0, rest |-> rest]

BytesOk(bytes) == [ok |-> TRUE, bytes |-> bytes, err |-> "none"]

BytesErr(err) == [ok |-> FALSE, bytes |-> <<>>, err |-> err]

\* LitByteStr::parse_escaped, the loop from the characters left on, buffer
\* being what was pushed so far
RECURSIVE parse_escaped(_, _)
parse_escaped(chars, buffer) ==
    IF chars = <<>> THEN BytesOk(buffer)
    ELSE IF Head(chars) = 92
    THEN Bind(parse_byte_escape(Tail(chars)), LAMBDA e :
             IF ~e.ok THEN BytesErr("BadByteEscape")
             ELSE parse_escaped(e.rest, Append(buffer, e.byte)))
    ELSE parse_escaped(Tail(chars), Append(buffer, as_u8(Head(chars))))

\* Resolve for LitByteStr, lines 64-74: the text between b" and "
resolve_text(chars, escaped) ==
    IF escaped THEN parse_escaped(chars, <<>>) ELSE BytesOk(as_bytes(chars))

EscIdle == [chars |-> <<>>, escaped |-> FALSE, done |-> TRUE, out |-> BytesOk(<<>>)]

\* The text of a literal is resolved.
ResolveText ==
    /\ ~esc.done
    /\ esc' = [esc EXCEPT !.out = resolve_text(esc.chars, esc.escaped), !.done = TRUE]
    /\ UNCHANGED <<rtVars, cliVars, compVars, parVars, vmVars>>

\* ------------------------------------------------------ rune-cli: dump_stack
\* The halted Vm: the operand stack, the stack bottoms of the call frames
\* recorded (the oldest first) and the stack bottom of the frame running.
\* A line of the dump: the header of a frame, the *empty* mark, or a value
\* printed as base+n = value; pos tells which place of the stack it was read
\* from (the dump does not print it).
DumpLine(kind, frame, base, n, value, pos) ==
    [kind |-> kind, frame |-> frame, base |-> base, n |-> n, value |-> value, pos |-> pos]

\* stack.get(from..to): whether the range lies in the stack
InStack(stack, from, to) == from <= to /\ to <= Len(stack)

\* dump_stack, lines 266-285: the lines printed for the recorded frame #nth
FrameLines(v, nth) ==
    LET frame_bottom == v.frames[nth + 1]
        stack_top == IF nth + 1 < Len(v.frames) THEN v.frames[nth + 2] ELSE v.stack_bottom
        header == << DumpLine("frame", nth, frame_bottom, 0, 0, 0) >>
        empty == IF stack_top = frame_bottom
                 THEN << DumpLine("empty", nth, frame_bottom, 0, 0, 0) >>
                 ELSE <<>>
        values == [n \in 1..Len(v.stack) |->
                      DumpLine("value", nth, frame_bottom, n - 1, v.stack[n], n)] IN
    IF ~InStack(v.stack, frame_bottom, stack_top)
    THEN [out |-> <<>>, fault |-> "bad stack slice"]
    ELSE [out |-> header \o empty \o values, fault |-> "none"]

\* dump_stack, lines 287-297: the frame running
FinalLines(v) ==
    LET header == << DumpLine("frame", Len(v.frames), v.stack_bottom, 0, 0, 0) >>
        empty == IF v.stack_bottom = Len(v.stack)
                 THEN << DumpLine("empty", Len(v.frames), v.stack_bottom, 0, 0, 0) >>
                 ELSE <<>>
        values == [n \in 1..(Len(v.stack) - v.stack_bottom) |->
                      DumpLine("value", Len(v.frames), v.stack_bottom, n - 1,
                               v.stack[v.stack_bottom + n], v.stack_bottom + n)] IN
    IF ~InStack(v.stack, v.stack_bottom, Len(v.stack))
    THEN [out |-> header, fault |-> "bad stack slice"]
    ELSE [out |-> header \o empty \o values, fault |-> "none"]

\* dump_stack: the recorded frames from #nth on, then the frame running; a
\* bad slice panics and ends the dump.
RECURSIVE dump_stack(_, _)
dump_stack(v, nth) ==
    IF nth = Len(v.frames) THEN FinalLines(v)
    ELSE Bind(FrameLines(v, nth), LAMBDA lines :
             IF lines.fault # "none" THEN lines
             ELSE Bind(dump_stack(v, nth + 1), LAMBDA rest :
                      [out |-> lines.out \o rest.out, fault |-> rest.fault]))

NoVm == [stack |-> <<>>, frames |-> <<>>, stack_bottom |-> 0, out |-> <<>>,
         fault |-> "none", done |-> TRUE]

\* The stacks a halted Vm can have: the first call frame recorded holds the
\* stack bottom 0 the Vm started with, every later one the stack bottom of its
\* caller, and the frame running lies above them and within the stack.
HaltedVms ==
    {[stack |-> st, frames |-> fr, stack_bottom |-> sb, out |-> <<>>,
      fault |-> "none", done |-> FALSE] :
        st \in Seqs(Values, MaxStack), fr \in Seqs(0..MaxStack, MaxFrames), sb \in 0..MaxStack}

VmOk(v) ==
    /\ v.stack_bottom <= Len(v.stack)
    /\ v.frames = <<>> => v.stack_bottom = 0
    /\ v.frames # <<>> => v.frames[1] = 0 /\ v.frames[Len(v.frames)] <= v.stack_bottom
    /\ \A i \in 1..(Len(v.frames) - 1) : v.frames[i] <= v.frames[i + 1]

\* main, lines 192-194: the stack is dumped
DumpStack ==
    /\ ~vm.done
    /\ LET d == dump_stack(vm, 0) IN
           vm' = [vm EXCEPT !.out = d.out, !.fault = d.fault, !.done = TRUE]
    /\ UNCHANGED <<rtVars, cliVars, compVars, parVars, escVars>>

\* ------------------------------------------------------------ specification
NotMade == [made |-> FALSE, freed |-> 0, dropped |-> 0, moved |-> 0]

Made == [made |-> TRUE, freed |-> 0, dropped |-> 0, moved |-> 0]

\* Before the first run: the source as first written, no bytecode file.
CliInit ==
    /\ now = 0
    /\ source = [ver |-> 0, ok |-> TRUE, warns |-> FALSE, mtime |-> 0]
    /\ cached = NoCache
    /\ run = RunIdle
    /\ exec = NoExec

\* Shared::new has been called for the cells in cs: one handle each.
RtInit(cs) ==
    /\ access = [c \in Cells |-> AccessNew]
    /\ count = [c \in Cells |-> IF c \in cs THEN 1 ELSE 0]
    /\ data = [c \in Cells |-> 0]
    /\ disposal = [c \in Cells |-> IF c \in cs THEN Made ELSE NotMade]
    /\ handles = [c \in Cells |-> [d \in Descs |-> IF c \in cs /\ d = Idle THEN 1 ELSE 0]]
    /\ owned = [c \in Cells |-> [refs |-> 0, muts |-> 0]]
    /\ last = [op |-> "new", cell |-> 1, ok |-> TRUE, value |-> 0, err |-> "none",
               preShared |-> 0, preExclusive |-> 0, preTaken |-> FALSE]
    /\ fault = "none"
    /\ ready = [c \in Cells |-> "pending"]
    /\ selState = "none"
    /\ selBranches = {}
    /\ selFutures = {}
    /\ selOut = <<>>

\* No expression has been given to the compiler.
CompInit ==
    comp = [expr |-> Lit, needs |-> "None", before |-> NewCompiler(<<>>, <<>>),
            after |-> NewCompiler(<<>>, <<>>), done |-> TRUE]

\* No parse in progress.
ParInit == par = ParIdle

\* No stack to dump.
VmInit == vm = NoVm

\* No text to resolve.
EscInit == esc = EscIdle

InitWith(cs) == RtInit(cs) /\ CliInit /\ CompInit /\ ParInit /\ VmInit /\ EscInit

\* One shared cell, its clones and its guards.
Init == InitWith({1})

Next ==
    \/ \E c \in Cells, d \in Descs : clone(c, d)
    \/ \E c \in Cells, d \in Descs : drop(c, d)
    \/ \E c \in Cells, d \in Descs : take(c, d)
    \/ \E c \in Cells, d \in Descs : owned_ref(c, d)
    \/ \E c \in Cells, d \in Descs : owned_mut(c, d)
    \/ \E c \in Cells, d \in Descs : borrow_ref(c, d)
    \/ \E c \in Cells, d \in Descs : borrow_mut(c, d)
    \/ \E c \in Cells : deref(c)
    \/ \E c \in Cells, v \in Values : deref_mut(c, v)
    \/ \E c \in Cells, d \in Descs : drop_borrow_ref(c, d)
    \/ \E c \in Cells, d \in Descs : drop_borrow_mut(c, d)
    \/ \E c \in Cells : drop_owned_ref(c)
    \/ \E c \in Cells : drop_owned_mut(c)

Spec == Init /\ [][Next]_vars

\* One shared cell holding an Any, used through the downcasting operations as
\* well.
NextAny ==
    \/ Next
    \/ \E c \in Cells, d \in Descs, matches \in BOOLEAN : take_downcast(c, d, matches)
    \/ \E c \in Cells, d \in Descs, matches \in BOOLEAN : downcast_borrow_ref(c, d, matches)
    \/ \E c \in Cells, d \in Descs, matches \in BOOLEAN : downcast_borrow_mut(c, d, matches)
    \/ \E c \in Cells, d \in Descs, matches \in BOOLEAN : downcast_owned_ref(c, d, matches)
    \/ \E c \in Cells, d \in Descs, matches \in BOOLEAN : downcast_owned_mut(c, d, matches)

SpecAny == Init /\ [][NextAny]_vars

\* NCells future cells, a stored select over some of them, and the holders of
\* clones of the futures given to the select, who use their clones while the
\* select exists and after it.
InitSelect == InitWith(Cells)

NextSelect ==
    \/ \E cs \in CellSeqs : SelectNew(cs)
    \/ \E c \in Cells, o \in {"ok", "err"} : FutureReady(c, o)
    \/ \E b \in [tag : 0..(NCells - 1), cell : Cells] : poll(b)
    \/ SelectDrop
    \/ \E c \in Cells, d \in Descs : clone(c, d)
    \/ \E c \in SelectCells, d \in Descs : drop(c, d)
    \/ \E c \in SelectCells, d \in Descs : borrow_ref(c, d)
    \/ \E c \in SelectCells, d \in Descs : borrow_mut(c, d)
    \/ \E c \in SelectCells, d \in Descs : drop_borrow_ref(c, d)
    \/ \E c \in SelectCells, d \in Descs : drop_borrow_mut(c, d)

SpecSelect == InitSelect /\ [][NextSelect]_vars

\* The same with every number of branches the Select instruction takes: none
\* at all as well.
NextSelectAny ==
    \/ NextSelect
    \/ SelectNew(<<>>)

SpecSelectAny == InitSelect /\ [][NextSelectAny]_vars

\* Runs of rune-cli on one entry file, with and without the bytecode option,
\* while the file is edited and the bytecode file damaged or removed.
InitCache == InitWith({})

NextCache ==
    \/ \E bytecode \in BOOLEAN : UseCache(bytecode)
    \/ Deserialize
    \/ \E stderr \in BOOLEAN : LoadPath(stderr)
    \/ \E created \in BOOLEAN : SerializeCache(created)
    \/ Tick
    \/ \E compiles \in BOOLEAN, warns \in BOOLEAN : EditSource(compiles, warns)
    \/ DamageCache
    \/ RemoveCache

SpecCache == InitCache /\ [][NextCache]_vars

\* One expression, with its needs, compiled in one of the scope chains.
InitCompile ==
    /\ RtInit({})
    /\ CliInit
    /\ ParInit
    /\ VmInit
    /\ EscInit
    /\ \E e \in Inputs, needs \in NeedsSet, scopes \in ScopeChains, strings \in StringTables :
          comp = [expr |-> e, needs |-> needs, before |-> NewCompiler(scopes, strings),
                  after |-> NewCompiler(scopes, strings), done |-> FALSE]

NextCompile == CompileExpr

SpecCompile == InitCompile /\ [][NextCompile]_vars

\* rune-cli from the loader to the end of main.
InitMain == InitWith({})

NextMain ==
    \/ \E bytecode \in BOOLEAN : UseCache(bytecode)
    \/ Deserialize
    \/ \E stderr \in BOOLEAN : LoadPath(stderr)
    \/ \E created \in BOOLEAN : SerializeCache(created)
    \/ \E compiles \in BOOLEAN, warns \in BOOLEAN : EditSource(compiles, warns)
    \/ Tick
    \/ DamageCache
    \/ RemoveCache
    \/ \E stderr \in BOOLEAN : EmitWarnings(stderr)
    \/ \E trace \in BOOLEAN, dump \in BOOLEAN, found \in BOOLEAN : VmCall(trace, dump, found)
    \/ \E outcome \in Outcomes : Complete(outcome)
    \/ \E stdout \in BOOLEAN : TracePrint(stdout)
    \/ \E outcome \in Outcomes, stdout \in BOOLEAN : TraceStep(outcome, stdout)

SpecMain == InitMain /\ [][NextMain]_vars

\* The parser is given a text and asked for one node; a byte-string literal is
\* then resolved.
InitParse ==
    /\ RtInit({})
    /\ CliInit
    /\ CompInit
    /\ VmInit
    /\ EscInit
    /\ \E job \in ParseJobs, storage \in SUBSET SyntheticIds,
          whole \in BOOLEAN, badEscape \in BOOLEAN :
          /\ job.what # "LitByteStr" => (storage = {} /\ whole /\ ~badEscape)
          /\ par = [what |-> job.what, toks |-> Lex(job.kinds), storage |-> storage,
                    text |-> [len |-> IF whole THEN TextLen(job.kinds) ELSE 1,
                              badEscape |-> badEscape],
                    done |-> FALSE, result |-> ParseErr(NoParseError, 1),
                    resolved |-> FALSE,
                    output |-> ResolveErr("none", "none", 0, Interval(0, 0))]

NextParse ==
    \/ ParseLitVec
    \/ ParseExprReturn
    \/ ParsePath
    \/ ParseLitByteStr
    \/ ResolveLitByteStr

SpecParse == InitParse /\ [][NextParse]_vars

\* A Vm has halted and its stack is dumped.
InitDump ==
    /\ RtInit({})
    /\ CliInit
    /\ CompInit
    /\ ParInit
    /\ EscInit
    /\ \E v \in HaltedVms : VmOk(v) /\ vm = v

NextDump == DumpStack

SpecDump == InitDump /\ [][NextDump]_vars

\* The text of a byte-string literal, with and without the escaped mark of
\* its token, is resolved.
InitEscape ==
    /\ RtInit({})
    /\ CliInit
    /\ CompInit
    /\ ParInit
    /\ VmInit
    /\ \E chars \in Seqs(Chars, MaxChars), escaped \in BOOLEAN :
          esc = [chars |-> chars, escaped |-> escaped, done |-> FALSE, out |-> BytesOk(<<>>)]

NextEscape == ResolveText

SpecEscape == InitEscape /\ [][NextEscape]_vars

TypeOK ==
    /\ \A c \in Cells : count[c] \in 0..(MaxHandles + MaxGuards)
    /\ fault \in {"none", "abort", "debug_assert", "stream_end"}
    /\ now \in Times
    /\ source \in [ver : Versions, ok : BOOLEAN, warns : BOOLEAN, mtime : Times]
    /\ cached \in [state : {"absent", "unit", "corrupt"}, unit : Versions, mtime : Times]
    /\ run.pc \in {"idle", "open", "build", "write", "done", "failed"}
    /\ run.unit \subseteq Versions
    /\ exec.pc \in {"none", "warned", "complete", "print", "step", "exited"}
    /\ exec.steps \in 0..MaxSteps
    /\ exec.halted \in {"no", "value", "error"}
    /\ exec.result \in {"none", "ok", "vm_error", "io_error"}

\* ------------------------------------------------------------------- claims
Reads == {"borrow_ref", "borrow_mut", "owned_ref", "owned_mut", "deref"}

Accesses == {"borrow_ref", "borrow_mut", "owned_ref", "owned_mut", "take"}

\* The guards alive on the cell of the last operation, against those alive
\* before it.
Granted(nShared, nExclusive) ==
    /\ NShared(last.cell) = last.preShared + nShared
    /\ NExclusive(last.cell) = last.preExclusive + nExclusive

\* C1: on every cell, over every sequence of clone, borrow_ref, borrow_mut,
\* owned_ref, owned_mut, take, guard release and handle drop, at most one
\* exclusive guard is alive, and while it is alive no shared guard is alive.
C1_GuardsExclude ==
    \A c \in Cells :
        /\ NExclusive(c) <= 1
        /\ NExclusive(c) = 1 => NShared(c) = 0

\* An exclusive guard is alive and a borrow_ref through a handle of the cell
\* has just been refused.
C1_Witness ==
    /\ last.op = "borrow_ref" /\ ~last.ok
    /\ NExclusive(last.cell) = 1

\* C2: borrow_ref succeeds if and only if no exclusive guard is alive on the
\* cell and the cell is not taken; when it fails it grants no guard.
C2_BorrowRefIff ==
    /\ last.op = "borrow_ref" =>
          /\ last.ok <=> (last.preExclusive = 0 /\ ~last.preTaken)
          /\ Granted(IF last.ok THEN 1 ELSE 0, 0)
    /\ \A c \in Cells :
          NHandles(c) > 0 => (shared(access[c]).ok <=> (NExclusive(c) = 0 /\ ~Moved(c)))

\* A borrow_ref has succeeded while another shared guard was alive.
C2_Witness ==
    /\ last.op = "borrow_ref" /\ last.ok
    /\ last.preShared >= 1

\* C3: borrow_mut succeeds if and only if the cell is free: no shared guard, no
\* exclusive guard, not taken.
C3_BorrowMutIff ==
    /\ last.op = "borrow_mut" =>
          /\ last.ok <=> (last.preShared = 0 /\ last.preExclusive = 0 /\ ~last.preTaken)
          /\ Granted(0, IF last.ok THEN 1 ELSE 0)
    /\ \A c \in Cells :
          NHandles(c) > 0 =>
              (exclusive(access[c]).ok <=> (NShared(c) = 0 /\ NExclusive(c) = 0 /\ ~Moved(c)))

\* A borrow_mut has been refused because a shared guard was alive.
C3_Witness ==
    /\ last.op = "borrow_mut" /\ ~last.ok
    /\ last.preShared >= 1 /\ last.preExclusive = 0 /\ ~last.preTaken

\* C4: take succeeds if and only if the cell is free; on success the cell is
\* taken, and taken is terminal: from then on every borrow_ref, borrow_mut,
\* owned_ref, owned_mut and take through a remaining clone fails and
\* is_readable reports false.
C4_TakeState ==
    /\ last.op = "take" =>
          /\ last.ok <=> (last.preShared = 0 /\ last.preExclusive = 0 /\ ~last.preTaken)
          /\ last.ok => is_taken(access[last.cell])
    /\ (last.op \in Accesses /\ last.preTaken) => ~last.ok
    /\ \A c \in Cells :
          Moved(c) =>
              /\ is_taken(access[c])
              /\ ~is_readable(c) /\ ~is_writable(c)
              /\ ~shared(access[c]).ok /\ ~exclusive(access[c]).ok /\ ~take_access(access[c]).ok
              /\ NShared(c) = 0 /\ NExclusive(c) = 0

C4_TakenStays ==
    \A c \in Cells : is_taken(access[c]) => is_taken(access'[c])

C4_TakeTerminal == []C4_TakeState /\ [][C4_TakenStays]_vars

\* A take through a clone of a cell that was taken before has been refused.
C4_Witness ==
    /\ last.op = "take" /\ ~last.ok /\ last.preTaken
    /\ NHandles(last.cell) >= 1

\* C5: once every guard of a cell has been dropped and the cell was not taken,
\* the cell is free again, so borrow_ref and borrow_mut succeed; and what a
\* guard reads is what was last written through an exclusive guard.
C5_ReleaseFrees ==
    /\ \A c \in Cells :
          (NHandles(c) > 0 /\ NShared(c) = 0 /\ NExclusive(c) = 0 /\ ~Moved(c)) =>
              /\ is_exclusive(access[c])
              /\ shared(access[c]).ok /\ exclusive(access[c]).ok
    /\ (last.op \in Reads /\ last.ok) => last.value = data[last.cell]

\* A borrow_ref has succeeded and reads the value an exclusive guard, since
\* dropped, wrote.
C5_Witness ==
    /\ last.op = "borrow_ref" /\ last.ok
    /\ last.preShared = 0
    /\ last.value = 1

\* C6: is_readable is true exactly when a borrow_ref would succeed (no
\* exclusive guard, not taken), is_writable exactly when a borrow_mut would
\* succeed (no guard at all, not taken).
C6_Snapshots ==
    \A c \in Cells :
        NHandles(c) > 0 =>
            /\ is_readable(c) <=> shared(access[c]).ok
            /\ is_readable(c) <=> (NExclusive(c) = 0 /\ ~Moved(c))
            /\ is_writable(c) <=> exclusive(access[c]).ok
            /\ is_writable(c) <=> (NShared(c) = 0 /\ NExclusive(c) = 0 /\ ~Moved(c))

\* A cell with shared guards alive is readable and not writable.
C6_Witness ==
    \E c \in Cells :
        /\ NHandles(c) > 0 /\ NShared(c) >= 1
        /\ is_readable(c) /\ ~is_writable(c)

\* C7: an owned guard keeps its access and one strong reference for its whole
\* life: while an OwnedRef is alive borrow_mut fails and borrow_ref succeeds,
\* while an OwnedMut is alive both fail, and once the owned guard is dropped
\* both succeed again.
C7_OwnedGuards ==
    /\ \A c \in Cells :
          /\ owned[c].refs > 0 =>
                /\ shared(access[c]).ok /\ ~exclusive(access[c]).ok
                /\ disposal[c].freed = 0
          /\ owned[c].muts > 0 =>
                /\ ~shared(access[c]).ok /\ ~exclusive(access[c]).ok
                /\ disposal[c].freed = 0
          /\ count[c] >= NHandles(c) + owned[c].refs + owned[c].muts
    /\ (last.op = "borrow_mut" /\ owned[last.cell].refs + owned[last.cell].muts > 0) => ~last.ok
    /\ (last.op = "borrow_ref" /\ owned[last.cell].muts > 0) => ~last.ok
    /\ (last.op = "borrow_ref" /\ owned[last.cell].refs > 0 /\ NExclusive(last.cell) = 0) => last.ok
    /\ ( /\ last.op \in {"drop_owned_ref", "drop_owned_mut"}
         /\ NHandles(last.cell) > 0
         /\ NShared(last.cell) = 0 /\ NExclusive(last.cell) = 0 /\ ~Moved(last.cell) ) =>
            shared(access[last.cell]).ok /\ exclusive(access[last.cell]).ok

\* An OwnedRef is the only strong reference besides one clone, and a
\* borrow_mut through that clone has been refused.
C7_Witness ==
    /\ last.op = "borrow_mut" /\ ~last.ok
    /\ owned[last.cell].refs = 1 /\ NHandles(last.cell) = 1
    /\ count[last.cell] = 2

\* C8: the interior is disposed of exactly once: the box is freed exactly
\* when the strong count reaches zero, the interior is dropped there if and
\* only if the cell is not taken, and a taken interior was moved out once and
\* is not dropped.
C8_DisposedOnce ==
    \A c \in Cells :
        disposal[c].made =>
            /\ disposal[c].freed <= 1
            /\ disposal[c].dropped + disposal[c].moved <= 1
            /\ disposal[c].freed = 1 <=> count[c] = 0
            /\ disposal[c].freed = 0 => disposal[c].dropped = 0
            /\ disposal[c].freed = 1 =>
                  /\ disposal[c].dropped + disposal[c].moved = 1
                  /\ disposal[c].dropped = 1 <=> ~is_taken(access[c])

\* The last clone of a taken cell has been dropped: the box is freed and the
\* interior, moved out by take, was not dropped.
C8_Witness ==
    \E c \in Cells :
        /\ disposal[c].freed = 1 /\ disposal[c].moved = 1 /\ disposal[c].dropped = 0
        /\ last.op = "drop" /\ last.cell = c

\* C9: a Select over n tagged futures resolves to exactly one branch: its poll
\* returns Pending while no branch is ready, and its Ready result is the
\* (index, value) pair, or the error, of one branch that was ready, index
\* being the tag that branch got at construction; no second result is
\* delivered.
C9_OneBranch ==
    /\ Len(selOut) <= 1
    /\ selState \in {"new", "pending"} => selOut = <<>>
    /\ selState = "resolved" => Len(selOut) = 1
    /\ (last.op = "poll" /\ selState = "pending") => ReadyBranches = {}
    /\ (last.op = "poll" /\ fault = "none") => selState \in {"pending", "resolved"}
    /\ \A i \in 1..Len(selOut) :
          LET out == selOut[i] IN
          /\ out.outcome \in {"ok", "err"}
          /\ out.ok <=> out.outcome = "ok"
          /\ \E b \in selBranches \ selFutures :
                /\ b.cell = out.from
                /\ out.ok => (out.index = b.tag /\ out.value = FutureValue(b.cell))

\* Two branches were ready at the poll; the Select resolved to the second in
\* source order, whose future is not the second cell, and the other branch is
\* still held, undelivered.
C9_Witness ==
    /\ selState = "resolved" /\ Len(selOut) = 1
    /\ selOut[1].ok /\ selOut[1].index = 1 /\ selOut[1].from = 1
    /\ \E b \in selFutures : ready[b.cell] \in {"ok", "err"}

\* C10 as stated: while a Select is pending it holds no shared or exclusive
\* guard on any cell.
C10_PendingHoldsNoGuard ==
    selState = "pending" => \A c \in Cells : SelectGuards(c) = {}

\* C10 as the code has it: while a Select is pending it holds, for each branch
\* future still in it, exactly one exclusive guard together with one strong
\* reference, and nothing else: no shared guard, no guard on another cell;
\* and no other guard is alive on a branch future's cell.
C10_PendingHoldsItsBranches ==
    selState = "pending" =>
        /\ selFutures = selBranches
        /\ \A c \in Cells :
              IF c \in SelectCells
              THEN /\ Cardinality(SelectGuards(c)) = 1
                   /\ access[c].writer /\ access[c].readers = 0 /\ ~access[c].taken
                   /\ NShared(c) = 0 /\ NExclusive(c) = 1
                   /\ count[c] = NHandles(c) + 1
                   /\ disposal[c].freed = 0
              ELSE SelectGuards(c) = {}

\* A Select over two futures is pending, a clone of one of them is alive, and
\* a borrow_ref through that clone has just been refused.
C10_Witness ==
    /\ selState = "pending" /\ Cardinality(selFutures) = 2
    /\ last.op = "borrow_ref" /\ ~last.ok
    /\ last.cell \in BranchCells /\ NHandles(last.cell) = 1

\* The cells of the branches whose result the Select has delivered.
Winners == {selOut[i].from : i \in 1..Len(selOut)}

\* C11: the branch futures that did not win are dropped without being
\* completed; once the Select is dropped, resolved or still pending, it holds
\* no future, every branch cell has lost the Select's exclusive guard and its
\* strong reference, the guard first (the last reference is given back on a
\* free cell, so the box is freed and its interior dropped without a failed
\* assertion), and a clone of a branch future can be borrowed again.
C11_DropReleases ==
    /\ \A b \in selBranches : b.cell \notin Winners => ready[b.cell] # "done"
    /\ selState = "dropped" =>
          /\ selFutures = {}
          /\ fault = "none"
          /\ \A c \in SelectCells :
                /\ SelectGuards(c) = {}
                /\ count[c] = NHandles(c)
                /\ access[c].writer <=> BorrowMuts(c) = 1
                /\ access[c].readers = BorrowRefs(c)
                /\ NHandles(c) = 0 => (disposal[c].freed = 1 /\ disposal[c].dropped = 1)
                /\ (NHandles(c) > 0 /\ NShared(c) = 0 /\ NExclusive(c) = 0) =>
                      (shared(access[c]).ok /\ exclusive(access[c]).ok)
    /\ ( /\ selState = "dropped" /\ last.op \in {"borrow_ref", "borrow_mut"}
         /\ last.preShared = 0 /\ last.preExclusive = 0 ) => last.ok

\* A Select over two futures resolved to one of them and was dropped; the
\* other future, ready but never delivered, was dropped with it, and a
\* borrow_mut through a clone of it has succeeded.
C11_Witness ==
    /\ selState = "dropped" /\ Len(selOut) = 1 /\ Cardinality(selBranches) = 2
    /\ last.op = "borrow_mut" /\ last.ok
    /\ last.cell \in SelectCells \ Winners
    /\ ready[last.cell] \in {"ok", "err"}

\* C12: with the bytecode option, a run that finds the source modified after
\* the bytecode file rebuilds the unit from the source; a run that finds the
\* source modified before, or at the same time as, the bytecode file chooses
\* the bytecode file and, when it deserializes, uses the cached unit without
\* compiling the source.
C12_CachePolicy ==
    (run.bytecode /\ run.pc # "idle" /\ run.cacheSeen # "absent") =>
        /\ run.srcMtime > run.cacheMtime =>
              /\ ~run.useCache
              /\ run.pc = "done" => (run.compiled /\ ~run.fromCache)
        /\ run.srcMtime <= run.cacheMtime =>
              /\ run.useCache
              /\ (run.pc = "done" /\ ~run.deserFailed) => (run.fromCache /\ ~run.compiled)

\* What the run has come to when the bytecode file it chose did not
\* deserialize, or was not there.
C13_MissState ==
    /\ run.deserFailed =>
          /\ run.useCache /\ ~run.fromCache
          /\ run.pc \in {"build", "write", "done", "failed"}
          /\ run.pc \in {"write", "done"} => (run.compiled /\ run.unit # {})
          /\ run.pc = "done" => (run.wrote /\ run.error = "none")
          /\ run.pc = "failed" => run.error \in {"load", "create"}
    /\ (run.bytecode /\ run.pc # "idle" /\ run.cacheSeen = "absent") =>
          /\ ~run.useCache /\ ~run.fromCache
          /\ run.pc \in {"build", "write", "done", "failed"}
          /\ run.pc = "done" => (run.compiled /\ run.wrote /\ run.error = "none")
          /\ run.pc = "failed" => run.error \in {"load", "create"}

\* What the steps of such a run do: the source, as it is then, is compiled,
\* and the bytecode file is overwritten with the unit just built.
C13_MissSteps ==
    (run.deserFailed \/ (run.bytecode /\ run.cacheSeen = "absent")) =>
        /\ (run.pc = "build" /\ run'.pc \in {"write", "done"}) => run'.unit = {source.ver}
        /\ (run.pc = "build" /\ source.ok) => run'.pc \in {"build", "write"}
        /\ (run.pc = "write" /\ run'.pc = "done") =>
              /\ cached'.state = "unit" /\ {cached'.unit} = run.unit
              /\ run'.unit = run.unit

Compiled == comp.done /\ ~Failed(comp.after)

\* What instructions are, their spans left out.
Code(asm) == [i \in 1..Len(asm) |-> <<asm[i].op, asm[i].arg>>]

\* The code of expression e compiled on its own, with the given needs, by a
\* compiler in the scopes the whole expression is compiled in.
CodeOf(c, e, needs) == compile(c, e, needs, <<>>)

\* The trailing instruction an expression ends with under some condition.
Trailing(cond, op) == IF cond THEN << <<op, NoArg>> >> ELSE <<>>

\* C14: a binary expression with a non-assign operator is compiled to the code
\* of lhs (needs Value), the code of rhs (needs Type for Is and IsNot, Value
\* otherwise), one instruction that is the operator's, and a Pop if and only if
\* the needs of the expression is None.
C14_BinaryLowering ==
    (Compiled /\ comp.expr.kind = "ExprBinary" /\ comp.expr.op \in NonAssignOps) =>
        LET e == comp.expr
            lhs == CodeOf(comp.before, e.lhs, "Value")
            rhs == CodeOf([comp.before EXCEPT !.strings = lhs.strings], e.rhs,
                          IF e.op \in {"Is", "IsNot"} THEN "Type" ELSE "Value") IN
        /\ ~Failed(lhs) /\ ~Failed(rhs)
        /\ Code(comp.after.asm) =
              Code(lhs.asm) \o Code(rhs.asm) \o << <<e.op, NoArg>> >>
                  \o Trailing(comp.needs = "None", "Pop")

\* x is y, compiled with needs None: a Copy, a Type, Is and Pop.
C14_Witness ==
    /\ Compiled /\ comp.needs = "None"
    /\ comp.expr = ExprBinary("Is", Px, Py)
    /\ Len(comp.after.asm) = 4
    /\ comp.after.asm[2].op = "Type" /\ comp.after.asm[4].op = "Pop"

\* C15: every anonymous slot declared is undeclared: a compile that succeeds
\* leaves the scopes as it found them, and no undecl_anon or scope pop finds
\* anything but the anonymous slots it expects (it would end the compile with
\* an internal error), whatever the nesting of binary expressions, field and
\* tuple-index assignments and index gets.
C15_AnonBalanced ==
    comp.done =>
        /\ comp.after.err # "Internal"
        /\ ~Failed(comp.after) => comp.after.scopes = comp.before.scopes

\* A field assignment whose value is an index get and whose target is a binary
\* expression, compiled in the inner block, whose top slot is a named local.
C15_Witness ==
    /\ Compiled
    /\ comp.expr.kind = "ExprBinary" /\ comp.expr.op = "Assign"
    /\ comp.expr.lhs.kind = "ExprFieldAccess" /\ comp.expr.lhs.field = "Ident"
    /\ comp.expr.lhs.expr.kind = "ExprBinary"
    /\ comp.expr.rhs.kind = "ExprIndexGet"
    /\ Len(comp.before.scopes) = 2
    /\ comp.after.scopes = comp.before.scopes

\* The left sides = supports: a bare path, a field access, a tuple index.
Assignable(lhs) == (lhs.kind = "Path" /\ lhs.bare) \/ lhs.kind = "ExprFieldAccess"

\* Some plain assignment in e has a left side that is not supported.
RECURSIVE BadAssignIn(_)
BadAssignIn(e) ==
    CASE e.kind = "ExprBinary" ->
            \/ e.op = "Assign" /\ ~Assignable(e.lhs)
            \/ BadAssignIn(e.lhs) \/ BadAssignIn(e.rhs)
      [] e.kind = "ExprFieldAccess" -> BadAssignIn(e.expr)
      [] e.kind = "ExprIndexGet" -> BadAssignIn(e.target) \/ BadAssignIn(e.index)
      [] OTHER -> FALSE

\* C16: a plain assignment whose lhs is not a bare path, a field access or a
\* tuple index fails with UnsupportedAssignExpr and nothing has been emitted
\* for it: no instruction, no slot, no string; and an assignment to one of the
\* three fails so only for an assignment nested in it.
C16_AssignTargets ==
    (comp.done /\ comp.expr.kind = "ExprBinary" /\ comp.expr.op = "Assign") =>
        /\ ~Assignable(comp.expr.lhs) =>
              /\ comp.after.err = "UnsupportedAssignExpr"
              /\ comp.after.asm = comp.before.asm
              /\ comp.after.scopes = comp.before.scopes
              /\ comp.after.strings = comp.before.strings
        /\ (Assignable(comp.expr.lhs) /\ comp.after.err = "UnsupportedAssignExpr") =>
              BadAssignIn(comp.expr)

\* An assignment to a path with further components, its value an expression
\* that would have compiled, has failed.
C16_Witness ==
    /\ comp.done /\ comp.after.err = "UnsupportedAssignExpr"
    /\ comp.expr.kind = "ExprBinary" /\ comp.expr.op = "Assign"
    /\ comp.expr.lhs = Pq /\ comp.expr.rhs = ExprBinary("Add", Px, Lit)
    /\ comp.after.asm = <<>>

\* The slot a name stands for: that of its last declaration in the innermost
\* scope declaring it, found by walking the chain from the inside; none if no
\* scope declares it.
RECURSIVE Innermost(_, _)
Innermost(scopes, name) ==
    IF scopes = <<>> THEN {}
    ELSE LET outer == SubSeq(scopes, 1, Len(scopes) - 1)
             s == scopes[Len(scopes)]
             hits == {i \in 1..Len(s) : s[i] = name} IN
         IF hits = {} THEN Innermost(outer, name)
         ELSE {Len(Flatten(outer)) + (CHOOSE i \in hits : \A j \in hits : j <= i) - 1}

\* C17: x = e is compiled to the code of e (needs Value) and one
\* Replace{offset}, offset the slot of the innermost declaration of x (then
\* the Unit of an assignment whose value is needed); if no scope declares x
\* the compile fails with MissingLocal.
C17_AssignLocal ==
    ( /\ comp.done /\ comp.expr.kind = "ExprBinary" /\ comp.expr.op = "Assign"
      /\ comp.expr.lhs.kind = "Path" /\ comp.expr.lhs.bare ) =>
        LET rhs == CodeOf(comp.before, comp.expr.rhs, "Value")
            slot == Innermost(comp.before.scopes, comp.expr.lhs.first) IN
        IF Failed(rhs) THEN comp.after.err = rhs.err
        ELSE IF slot = {} THEN comp.after.err = "MissingLocal"
        ELSE /\ Compiled
             /\ \E offset \in slot :
                   Code(comp.after.asm) =
                       Code(rhs.asm) \o << <<"Replace", <<offset>> >> >>
                           \o Trailing(comp.needs # "None", "Unit")

\* x = x + 1 in the inner block, where x is declared again: the Replace is to
\* slot 3, the inner x, not to slot 0.
C17_Witness ==
    /\ Compiled /\ comp.needs = "None"
    /\ comp.expr = ExprBinary("Assign", Px, ExprBinary("Add", Px, Lit))
    /\ Len(comp.before.scopes) = 2
    /\ Code(comp.after.asm) =
          << <<"Copy", <<3>> >>, <<"Integer", NoArg>>, <<"Add", NoArg>>, <<"Replace", <<3>> >> >>

\* C18: e.field = rhs is compiled to the code of rhs, String{slot} with the
\* slot the field's name is interned at (one slot per name), the code of e,
\* then IndexSet; the code of rhs and the code of e each leave one value, so
\* at IndexSet the stack holds the target, under it the key, under it the
\* value.
C18_AssignField ==
    ( /\ comp.done /\ comp.expr.kind = "ExprBinary" /\ comp.expr.op = "Assign"
      /\ comp.expr.lhs.kind = "ExprFieldAccess" /\ comp.expr.lhs.field = "Ident" ) =>
        LET name == comp.expr.lhs.name
            rhs == CodeOf(new_static_string(comp.before, name), comp.expr.rhs, "Value")
            target == CodeOf([comp.before EXCEPT !.strings = rhs.strings],
                             comp.expr.lhs.expr, "Value")
            strings == comp.after.strings IN
        IF Failed(rhs) THEN comp.after.err = rhs.err
        ELSE IF Failed(target) THEN comp.after.err = target.err
        ELSE /\ Compiled
             /\ \A i, j \in 1..Len(strings) : strings[i] = strings[j] => i = j
             /\ SubSeq(strings, 1, Len(comp.before.strings)) = comp.before.strings
             /\ \E slot \in 0..(Len(strings) - 1) :
                   /\ strings[slot + 1] = name
                   /\ Code(comp.after.asm) =
                         Code(rhs.asm) \o << <<"String", <<slot>> >> >>
                             \o Code(target.asm) \o << <<"IndexSet", NoArg>> >>
                             \o Trailing(comp.needs # "None", "Unit")
             /\ Depth(rhs.asm) = 1 /\ SelfContained(rhs.asm)
             /\ Depth(target.asm) = 1 /\ SelfContained(target.asm)

\* x.a = (y.a = 1) in a unit that has the string b already: both keys are the
\* one slot of a, and the inner assignment leaves its Unit as the value.
C18_Witness ==
    /\ Compiled /\ comp.needs = "None"
    /\ comp.expr = ExprBinary("Assign", FieldIdent(Px, "a"),
                              ExprBinary("Assign", FieldIdent(Py, "a"), Lit))
    /\ comp.before.strings = <<"b">> /\ comp.after.strings = <<"b", "a">>
    /\ Len(comp.before.scopes) = 1
    /\ Code(comp.after.asm) =
          << <<"Integer", NoArg>>, <<"String", <<1>> >>, <<"Copy", <<1>> >>,
             <<"IndexSet", NoArg>>, <<"Unit", NoArg>>,
             <<"String", <<1>> >>, <<"Copy", <<0>> >>, <<"IndexSet", NoArg>> >>

\* C19 as stated: a compound assignment whose lhs is not a bare local fails
\* with UnsupportedAssignExpr.
C19_CompoundUnsupportedAssign ==
    ( /\ comp.done /\ comp.expr.kind = "ExprBinary" /\ comp.expr.op \in CompoundOps
      /\ ~(comp.expr.lhs.kind = "Path" /\ comp.expr.lhs.bare) ) =>
        comp.after.err = "UnsupportedAssignExpr"

\* C19 as the code has it: a compound assignment whose lhs is not a bare path
\* fails with UnsupportedBinaryExpr, nothing emitted; one whose lhs is a bare
\* path that no scope declares fails with MissingLocal, nothing emitted.
C19_CompoundUnsupported ==
    (comp.done /\ comp.expr.kind = "ExprBinary" /\ comp.expr.op \in CompoundOps) =>
        LET lhs == comp.expr.lhs
            bare == lhs.kind = "Path" /\ lhs.bare IN
        /\ ~bare =>
              /\ comp.after.err = "UnsupportedBinaryExpr"
              /\ comp.after.asm = comp.before.asm
              /\ comp.after.scopes = comp.before.scopes
              /\ comp.after.strings = comp.before.strings
        /\ (bare /\ Innermost(comp.before.scopes, lhs.first) = {}) =>
              /\ comp.after.err = "MissingLocal"
              /\ comp.after.asm = comp.before.asm

\* x.a += 1 has failed with UnsupportedBinaryExpr.
C19_Witness ==
    /\ comp.done /\ comp.after.err = "UnsupportedBinaryExpr"
    /\ comp.expr = ExprBinary("AddAssign", FieldIdent(Px, "a"), Lit)
    /\ comp.after.asm = <<>>

\* C20: a compound assignment to a bare local is compiled to the code of rhs
\* (needs Value) and one instruction, the operator's own, carrying the slot of
\* the local (then the Unit of an assignment whose value is needed): the local
\* is not loaded and there is no Replace.
C20_CompoundAssign ==
    ( /\ comp.done /\ comp.expr.kind = "ExprBinary" /\ comp.expr.op \in CompoundOps
      /\ comp.expr.lhs.kind = "Path" /\ comp.expr.lhs.bare
      /\ Innermost(comp.before.scopes, comp.expr.lhs.first) # {} ) =>
        LET rhs == CodeOf(comp.before, comp.expr.rhs, "Value") IN
        IF Failed(rhs) THEN comp.after.err = rhs.err
        ELSE /\ Compiled
             /\ \E offset \in Innermost(comp.before.scopes, comp.expr.lhs.first) :
                   Code(comp.after.asm) =
                       Code(rhs.asm) \o << <<comp.expr.op, <<offset>> >> >>
                           \o Trailing(comp.needs # "None", "Unit")
             /\ \A i \in 1..Len(comp.after.asm) :
                   comp.after.asm[i].op = "Replace" =>
                       i <= Len(rhs.asm) /\ rhs.asm[i].op = "Replace"

\* y >>= x in the inner block: the code of x, then ShrAssign on the slot of y.
C20_Witness ==
    /\ Compiled /\ comp.needs = "Value"
    /\ comp.expr = ExprBinary("ShrAssign", Py, Px)
    /\ Len(comp.before.scopes) = 2
    /\ Code(comp.after.asm) =
          << <<"Copy", <<3>> >>, <<"ShrAssign", <<1>> >>, <<"Unit", NoArg>> >>

\* Whether the code ends with the Unit of an assignment, and what the code
\* leaves on the stack.
EndsWithUnit(asm) == Len(asm) > 0 /\ asm[Len(asm)].op = "Unit"

\* C21 as stated: a compiled assignment or compound assignment ends with a
\* Unit if and only if its needs is Value, and leaves one value on the stack
\* under needs Value and none otherwise.
C21_UnitIffValue ==
    (Compiled /\ comp.expr.kind = "ExprBinary" /\ is_assign(comp.expr.op)) =>
        /\ EndsWithUnit(comp.after.asm) <=> comp.needs = "Value"
        /\ Depth(comp.after.asm) = IF comp.needs = "Value" THEN 1 ELSE 0

\* C21 as the code has it: a compiled assignment or compound assignment ends
\* with a Unit, whose span joins lhs and rhs, if and only if its needs asks for
\* a value (Value or Type); it leaves one value on the stack then and none
\* under needs None, and never pops below its own values.
C21_UnitIffNeeded ==
    (Compiled /\ comp.expr.kind = "ExprBinary" /\ is_assign(comp.expr.op)) =>
        LET asm == comp.after.asm IN
        /\ EndsWithUnit(asm) <=> comp.needs \in {"Value", "Type"}
        /\ EndsWithUnit(asm) => asm[Len(asm)].span = Span(<<>>, "join")
        /\ Depth(asm) = IF comp.needs = "None" THEN 0 ELSE 1
        /\ SelfContained(asm)

\* x.a = 1 compiled for its effect only: no Unit, nothing left on the stack;
\* and x += 1 compiled where a type is asked for: a Unit.
C21_Witness ==
    /\ Compiled
    /\ \/ /\ comp.needs = "None"
          /\ comp.expr = ExprBinary("Assign", FieldIdent(Px, "a"), Lit)
          /\ ~EndsWithUnit(comp.after.asm) /\ Len(comp.after.asm) = 4
       \/ /\ comp.needs = "Type"
          /\ comp.expr = ExprBinary("AddAssign", Px, Lit)
          /\ EndsWithUnit(comp.after.asm)

\* The statement o.a += 4 of the program, o being the local x.
FieldAddAssign == ExprBinary("AddAssign", FieldIdent(Px, "a"), Lit)

OwnInst(op) ==
    {i \in 1..Len(comp.after.asm) :
        comp.after.asm[i].op = op /\ comp.after.asm[i].span.at = <<>>}

\* The division 1 / 0 of the program.
OneDivZero == ExprBinary("Div", Lit, Lit)

\* C23 as stated: the span recorded for the Div instruction of a division is
\* the span of the operator token.
C23_DivSpanIsOperator ==
    (Compiled /\ comp.expr.kind = "ExprBinary" /\ comp.expr.op = "Div") =>
        \A i \in OwnInst("Div") :
            Resolve(comp.expr, 0, comp.after.asm[i].span)
                = Resolve(comp.expr, 0, Span(<<>>, "op"))

\* C23 as the code has it: the one instruction emitted for the operator of a
\* non-assign binary expression (and the Pop after it) records the span of the
\* whole binary expression, from the start of lhs to the end of rhs; that span
\* contains the operator token and is never the operator token's span.
C23_OpSpanIsExpression ==
    (Compiled /\ comp.expr.kind = "ExprBinary" /\ ~is_assign(comp.expr.op)) =>
        LET whole == Interval(0, Width(comp.expr))
            tok == Resolve(comp.expr, 0, Span(<<>>, "op")) IN
        /\ Cardinality(OwnInst(comp.expr.op)) = 1
        /\ \A i \in OwnInst(comp.expr.op) \cup OwnInst("Pop") :
              LET at == Resolve(comp.expr, 0, comp.after.asm[i].span) IN
              /\ at = whole
              /\ at = join(Resolve(comp.expr, 0, Span(<<"lhs">>, "expr")),
                           Resolve(comp.expr, 0, Span(<<"rhs">>, "expr")))
              /\ at.start < tok.start /\ tok.end < at.end
              /\ at # tok

\* 1 / 0 compiled for its value: the Div is the third instruction and its span
\* is the three tokens of the expression, the operator being the second.
C23_Witness ==
    /\ Compiled /\ comp.expr = OneDivZero /\ comp.needs = "Value"
    /\ OwnInst("Div") = {3}
    /\ Resolve(comp.expr, 0, comp.after.asm[3].span) = Interval(0, 3)
    /\ Resolve(comp.expr, 0, Span(<<>>, "op")) = Interval(1, 2)

\* C24: an index get a[b] is compiled to the code of the index b, the code of
\* the target a, one IndexGet, and a Pop if and only if the needs is None; the
\* scopes are afterwards what they were, the two anonymous slots having been
\* declared in a child scope that is popped.  An operand that fails fails the
\* index get, the index first.
C24_IndexGetLowering ==
    (comp.done /\ comp.expr.kind = "ExprIndexGet") =>
        LET e == comp.expr
            index == CodeOf(comp.before, e.index, "Value")
            target == CodeOf([comp.before EXCEPT !.strings = index.strings], e.target, "Value") IN
        IF Failed(index) THEN comp.after.err = index.err
        ELSE IF Failed(target) THEN comp.after.err = target.err
        ELSE /\ Compiled
             /\ Code(comp.after.asm) =
                   Code(index.asm) \o Code(target.asm) \o << <<"IndexGet", NoArg>> >>
                       \o Trailing(comp.needs = "None", "Pop")
             /\ Cardinality(OwnInst("IndexGet")) = 1
             /\ comp.after.scopes = comp.before.scopes
             /\ Depth(index.asm) = 1 /\ Depth(target.asm) = 1
             /\ Depth(comp.after.asm) = IF comp.needs = "None" THEN 0 ELSE 1

\* x[y] compiled in the inner block for its effect only: the index y is
\* copied first, then the target x, then IndexGet and Pop.
C24_Witness ==
    /\ Compiled /\ comp.needs = "None"
    /\ comp.expr = ExprIndexGet(Px, Py)
    /\ Len(comp.before.scopes) = 2
    /\ Code(comp.after.asm) =
          << <<"Copy", <<1>> >>, <<"Copy", <<3>> >>, <<"IndexGet", NoArg>>, <<"Pop", NoArg>> >>
    /\ comp.after.scopes = comp.before.scopes

\* The node asked for has been parsed.
Parsed(what) == par.what = what /\ par.done /\ par.result.ok

\* The kinds of the tokens of the text.
KindsOf(toks) == [i \in 1..Len(toks) |-> toks[i].kind.name]

\* An expression made of literals only, however deep.
RECURSIVE AllConst(_)
AllConst(node) ==
    CASE node.kind \in {"LitNumber", "LitByteStr"} -> TRUE
      [] node.kind = "LitVec" -> \A i \in 1..Len(node.items) : AllConst(node.items[i])
      [] OTHER -> FALSE

\* C25: a parsed vector literal is flagged is_const if and only if every one of
\* its items is const; the empty vector is const, and one item that is not
\* clears the flag wherever it stands and whether or not a comma ends the list.
C25_VecConst ==
    Parsed("LitVec") =>
        LET node == par.result.node IN
        /\ node.is_const <=> \A i \in 1..Len(node.items) : expr_is_const(node.items[i])
        /\ node.is_const <=> AllConst(node)
        /\ node.items = <<>> => node.is_const

\* [x, 1]: the item that is not const comes first, the vector is not const.
C25_Witness ==
    /\ Parsed("LitVec")
    /\ KindsOf(par.toks) = <<"Open", "Ident", "Comma", "LitNumber", "Close">>
    /\ Len(par.result.node.items) = 2
    /\ ~par.result.node.is_const

\* One span covers another.
Covers(a, b) == a.start <= b.start /\ b.end <= a.end

\* The children of a parsed node, by their spans.
RECURSIVE ChildSpans(_)
ChildSpans(node) ==
    CASE node.kind = "ExprReturn" ->
            {node.return_.span} \cup {expr_span(node.expr[i]) : i \in 1..Len(node.expr)}
      [] node.kind = "LitVec" ->
            {node.open.span, node.close.span}
                \cup {expr_span(node.items[i]) : i \in 1..Len(node.items)}
                \cup UNION {ChildSpans(node.items[i]) : i \in 1..Len(node.items)}
      [] node.kind = "Path" ->
            {node.first.span}
                \cup {node.rest[i].scope.span : i \in 1..Len(node.rest)}
                \cup {node.rest[i].ident.span : i \in 1..Len(node.rest)}
      [] OTHER -> {}

\* C26: the span of a parsed node covers the span of every child and has its
\* start before its end.  That of a return runs from the start of the return
\* token to the end of the expression returned, and is the token's without
\* one; that of a vector runs from the open bracket to the close bracket; that
\* of a path runs from the first identifier to the end of the last component.
C26_SpanCoversChildren ==
    LET node == par.result.node IN
    /\ Parsed("ExprReturn") =>
          LET span == expr_return_span(node) IN
          /\ span.start <= span.end
          /\ \A child \in ChildSpans(node) : Covers(span, child)
          /\ span.start = node.return_.span.start
          /\ span.end = IF node.expr = <<>> THEN node.return_.span.end
                        ELSE expr_span(node.expr[1]).end
    /\ Parsed("LitVec") =>
          LET span == lit_vec_span(node) IN
          /\ span.start <= span.end
          /\ \A child \in ChildSpans(node) : Covers(span, child)
          /\ span = Interval(node.open.span.start, node.close.span.end)
    /\ Parsed("Path") =>
          LET span == path_span(node) IN
          /\ span.start <= span.end
          /\ \A child \in ChildSpans(node) : Covers(span, child)
          /\ span.start = node.first.span.start
          /\ span.end = IF node.rest = <<>> THEN node.first.span.end
                        ELSE node.rest[Len(node.rest)].ident.span.end

\* a::b::c: the span of the path ends with c.
C26_Witness ==
    /\ Parsed("Path")
    /\ KindsOf(par.toks) = <<"Ident", "Scope", "Ident", "Scope", "Ident">>
    /\ Len(par.result.node.rest) = 2
    /\ path_span(par.result.node) = Interval(0, par.toks[5].span.end)

\* C27: parsing a byte-string literal always gives a result.  If the next
\* token is a byte-string literal the node carries that token and its literal
\* source; for a token of any other kind the result is the error
\* ExpectedString with that kind and that token's span; at the end of the
\* input the result is an error.
C27_ByteStrParse ==
    (par.what = "LitByteStr" /\ par.done) =>
        LET r == par.result IN
        IF par.toks = <<>>
        THEN ~r.ok /\ r.err.kind = "UnexpectedEof" /\ r.node = NoNode
        ELSE IF par.toks[1].kind.name = "LitByteStr"
        THEN /\ r.ok /\ r.err = NoParseError
             /\ r.node.token = par.toks[1]
             /\ r.node.source = par.toks[1].kind.source
             /\ lit_byte_str_span(r.node) = par.toks[1].span
             /\ r.pos = 2
        ELSE /\ ~r.ok /\ r.node = NoNode
             /\ r.err = ParseError("ExpectedString", par.toks[1].kind, par.toks[1].span)

\* A string literal where a byte-string literal is asked for: ExpectedString.
C27_Witness ==
    /\ par.what = "LitByteStr" /\ par.done
    /\ Len(par.toks) = 2 /\ par.toks[1].kind = K("LitStr")
    /\ par.result.err.kind = "ExpectedString" /\ par.result.err.actual = K("LitStr")
    /\ par.result.err.span = par.toks[1].span

\* C28: resolving a byte-string literal whose literal source is Synthetic(id)
\* gives the bytes Storage keeps under id when it has them, and fails with
\* BadSyntheticId (kind byte string, the id, the span of the token) when it
\* has not; the text of the source plays no part, whatever its length and its
\* escapes.
C28_ResolveSynthetic ==
    ( /\ Parsed("LitByteStr") /\ par.resolved
      /\ par.result.node.source.tag = "Synthetic" ) =>
        LET node == par.result.node
            id == node.source.id IN
        /\ id \in par.storage => par.output = ResolveOk(StoredBytes(id))
        /\ id \notin par.storage =>
              par.output = ResolveErr("BadSyntheticId", "byte string", id, node.token.span)
        /\ par.output.bytes.from \notin {"text", "escaped"}
        /\ par.output.err.kind \notin {"BadSlice", "BadByteEscape"}

\* A synthetic literal with id 1, Storage holding id 0 only, and a source too
\* short for the token: BadSyntheticId, not BadSlice.
C28_Witness ==
    /\ Parsed("LitByteStr") /\ par.resolved
    /\ par.result.node.source = Synthetic(1)
    /\ par.storage = {0}
    /\ par.text.len < par.toks[1].span.end
    /\ par.output.err.kind = "BadSyntheticId" /\ par.output.err.id = 1

\* What holds of a run whose build from the source failed, and of main after
\* any run.
C29_Abandoned ==
    /\ run.error = "load" =>
          /\ run.pc = "failed"
          /\ run.diag \in {"emitted", "failed"}
          /\ ~run.wrote /\ ~run.compiled /\ run.unit = {}
    /\ run.pc # "done" => exec = NoExec
    /\ exec.pc \notin {"none", "exited"} => run.unit # {}
    /\ exec.steps > 0 => run.unit # {}
    /\ (exec.pc = "exited" /\ exec.steps = 0 /\ exec.halted = "no" /\ exec.result = "io_error")
          => (run.warnings \/ exec.trace)

\* What the steps do: the build that fails ends the run and leaves the
\* bytecode file as it is, and the run takes no step after it; once the unit
\* is there, warnings or not, main goes on to the Vm unless writing the
\* warnings fails.
C29_AbandonSteps ==
    /\ (run.pc = "build" /\ run' # run /\ ~source.ok) =>
          /\ run'.pc = "failed" /\ run'.error = "load"
          /\ run'.diag = "emitted" \/ run'.diag = "failed"
          /\ cached' = cached /\ exec' = exec
    /\ (run.pc = "failed" /\ run'.pc = "failed") => (run' = run /\ exec' = exec)
    /\ (exec.pc = "none" /\ exec'.pc # "none" /\ exec'.result # "io_error") =>
          exec'.pc = "warned"
    /\ (exec.pc = "none" /\ exec'.result = "io_error") => run.warnings

\* C29: a build from the source that fails abandons the unit: the diagnostics
\* are written to stderr (unless the write itself fails) and the run ends with
\* an error, the bytecode file is neither created nor overwritten, and no Vm
\* execution is started; a unit built with warnings is executed like one built
\* without, the warnings being written to stderr first.
C29_ErrorAbandonsUnit == []C29_Abandoned /\ [][C29_AbandonSteps]_vars

\* A source with warnings was built and its unit has been executed to its
\* value, after an edit that did not compile had ended an earlier run.
C29_WarningsExecuted ==
    /\ run.pc = "done" /\ run.compiled /\ run.warnings
    /\ exec.pc = "exited" /\ exec.result = "ok" /\ exec.steps > 0
    /\ source.ver > 0

\* A source that does not compile: the run has failed, the diagnostics are
\* written, the bytecode file of an earlier run is still there.
C29_Witness ==
    /\ run.error = "load" /\ run.diag = "emitted" /\ run.bytecode
    /\ cached.state = "unit" /\ cached.unit < source.ver
    /\ exec = NoExec

\* What holds of a trace: what it returned is what the last step gave.
C30_Surfaced ==
    exec.trace =>
        /\ exec.pc \in {"print", "step"} => (exec.halted = "no" /\ exec.result = "none")
        /\ exec.result = "ok" => (exec.pc = "exited" /\ exec.halted = "value" /\ exec.steps > 0)
        /\ exec.result = "vm_error" => (exec.pc = "exited" /\ exec.halted = "error")
        /\ exec.halted = "error" => exec.result = "vm_error"
        /\ exec.halted = "value" => (exec.result = "ok" \/ (exec.dump /\ exec.result = "io_error"))

\* What the steps of a trace do: a step is only taken by a machine that has
\* not given its value or failed; the step that gives Some(value) returns the
\* value (unless writing the stack fails) and the step that fails returns the
\* error; nothing changes once the trace has returned.
C30_TraceSteps ==
    /\ exec'.steps > exec.steps =>
          /\ exec.halted = "no" /\ exec.pc = "step"
          /\ exec'.steps = exec.steps + 1
          /\ exec'.halted = "error" => (exec'.pc = "exited" /\ exec'.result = "vm_error")
          /\ exec'.halted = "value" =>
                /\ exec'.pc = "exited"
                /\ exec'.result = "ok" \/ (exec.dump /\ exec'.result = "io_error")
          /\ exec'.halted = "no" => (exec'.pc \in {"print", "exited"})
    /\ (exec.pc = "exited" /\ exec'.pc = "exited") => exec' = exec

\* C30: the trace loop steps the execution until the first step that gives
\* Some(value), returns that value and steps no more; at the first step that
\* fails it returns the VmError and steps no more.
C30_TraceSurfacesErrors == []C30_Surfaced /\ [][C30_TraceSteps]_vars

\* A trace whose second step failed: the VmError is the result.
C30_Witness ==
    /\ exec.trace /\ exec.pc = "exited"
    /\ exec.steps = MaxSteps /\ exec.halted = "error" /\ exec.result = "vm_error"

\* C31: e.N = rhs is compiled to the code of rhs, the code of e, then
\* TupleIndexSet{index: N}, each of the two leaving one value; when the number
\* is not a valid tuple index the compile fails with UnsupportedTupleIndex,
\* whatever rhs and e are, and no instruction has been emitted.
C31_AssignTupleIndex ==
    ( /\ comp.done /\ comp.expr.kind = "ExprBinary" /\ comp.expr.op = "Assign"
      /\ comp.expr.lhs.kind = "ExprFieldAccess" /\ comp.expr.lhs.field = "LitNumber" ) =>
        LET rhs == CodeOf(comp.before, comp.expr.rhs, "Value")
            target == CodeOf(comp.before, comp.expr.lhs.expr, "Value") IN
        IF ~comp.expr.lhs.valid
        THEN /\ comp.after.err = "UnsupportedTupleIndex"
             /\ comp.after.asm = <<>>
             /\ comp.after.scopes = comp.before.scopes
        ELSE IF Failed(rhs) THEN comp.after.err = rhs.err
        ELSE IF Failed(target) THEN comp.after.err = target.err
        ELSE /\ Compiled
             /\ Code(comp.after.asm) =
                   Code(rhs.asm) \o Code(target.asm)
                       \o << <<"TupleIndexSet", <<comp.expr.lhs.number>> >> >>
                       \o Trailing(needs_value(comp.needs), "Unit")
             /\ Depth(rhs.asm) = 1 /\ SelfContained(rhs.asm)
             /\ Depth(target.asm) = 1 /\ SelfContained(target.asm)
             /\ comp.after.scopes = comp.before.scopes

\* x.1 = y compiles to Copy y, Copy x, TupleIndexSet 1; and z.1 = z with a
\* number that is no tuple index fails on the number, not on the missing z.
C31_Witness ==
    /\ comp.done /\ comp.needs = "None" /\ Len(comp.before.scopes) = 1
    /\ \/ /\ comp.expr = ExprBinary("Assign", FieldNumber(Px, 1, TRUE), Py)
          /\ Code(comp.after.asm) =
                << <<"Copy", <<1>> >>, <<"Copy", <<0>> >>, <<"TupleIndexSet", <<1>> >> >>
       \/ /\ comp.expr = ExprBinary("Assign", FieldNumber(Pz, 1, FALSE), Pz)
          /\ comp.after.err = "UnsupportedTupleIndex"

\* The values the dump printed under frame #k, in order.
ValueLines(k) ==
    SelectSeq(vm.out, LAMBDA line : line.kind = "value" /\ line.frame = k)

\* The slice of frame #k: from its stack bottom to the stack bottom of the
\* next frame, the frame running being the last and reaching the top.
SliceLines(k) ==
    LET bottoms == vm.frames \o << vm.stack_bottom >>
        bottom == bottoms[k + 1]
        top == IF k + 1 < Len(bottoms) THEN bottoms[k + 2] ELSE Len(vm.stack) IN
    [n \in 1..(top - bottom) |->
        DumpLine("value", k, bottom, n - 1, vm.stack[bottom + n], bottom + n)]

\* C32: the dump prints under every frame the values of that frame's slice and
\* no others, labelled with the frame's stack bottom plus their place in the
\* slice, so every value of the stack is printed exactly once.
C32_DumpByFrame ==
    (vm.done /\ vm.stack # <<>> /\ vm.fault = "none") =>
        /\ \A k \in 0..Len(vm.frames) : ValueLines(k) = SliceLines(k)
        /\ \A pos \in 1..Len(vm.stack) :
              Cardinality({i \in 1..Len(vm.out) :
                              vm.out[i].kind = "value" /\ vm.out[i].pos = pos}) = 1

\* What the dump does print: under every recorded frame the whole stack from
\* its first value, numbered from the frame's stack bottom, and under the
\* frame running its own slice.
C32_WholeStackPerFrame ==
    vm.done =>
        /\ vm.fault = "none"
        /\ \A k \in 0..(Len(vm.frames) - 1) :
              ValueLines(k) = [n \in 1..Len(vm.stack) |->
                                  DumpLine("value", k, vm.frames[k + 1], n - 1, vm.stack[n], n)]
        /\ ValueLines(Len(vm.frames)) = SliceLines(Len(vm.frames))

\* A run starts and decides to use the bytecode file, which holds a unit.
C33_DecidesOnCache ==
    /\ run.pc \in {"idle", "done", "failed"} /\ run'.pc = "open"
    /\ cached.state = "unit"

\* C33: whenever a run decides to use the cached unit, that unit was compiled
\* from the text the source file has at that moment, whatever edits and runs
\* came before (modification times never decrease: they are the clock's).
C33_CachedUnitIsCurrent == [][C33_DecidesOnCache => cached.unit = source.ver]_vars

\* The live handles of cell c: the Shared values, the owned guards the program
\* holds and those the Select holds for its branches.
LiveHandles(c) == NHandles(c) + owned[c].refs + owned[c].muts + Cardinality(SelectGuards(c))

\* The strong count is the number of live handles, and the box has been freed
\* exactly when that number is zero.
C34_Counted ==
    \A c \in Cells :
        /\ count[c] = LiveHandles(c)
        /\ disposal[c].made => (disposal[c].freed = IF count[c] = 0 THEN 1 ELSE 0)
        /\ fault # "abort"

\* What each operation does to the count of the cell it is on.
C34_CountSteps ==
    LET c == last'.cell
        by == count'[c] - count[c] IN
    /\ last'.op = "clone" => by = 1
    /\ last'.op \in {"drop", "take", "drop_owned_ref", "drop_owned_mut"} => by = -1
    /\ last'.op \in {"owned_ref", "owned_mut"} =>
          /\ last'.ok => by = 0
          /\ ~last'.ok => by = -1
    /\ last'.op \in {"borrow_ref", "borrow_mut", "deref", "deref_mut",
                      "drop_borrow_ref", "drop_borrow_mut"} => by = 0
    /\ \A x \in Cells : x # c => count'[x] = count[x]
    /\ disposal'[c].freed > disposal[c].freed <=> (count[c] = 1 /\ count'[c] = 0)

\* C34: in every reachable state the strong count of a box is the number of
\* live handles to it; clone adds one, the drop of a handle or of an owned
\* guard removes one, a successful owned_ref / owned_mut moves the handle's
\* reference into the guard, a failed one gives it back, and the box is freed
\* at the step that brings the count to zero and at no other.
C34_CountIsLiveHandles == []C34_Counted /\ [][C34_CountSteps]_vars

\* A failed owned_mut has given the consumed handle's reference back while an
\* OwnedRef and one more clone keep the box alive.
C34_Witness ==
    /\ last.op = "owned_mut" /\ ~last.ok
    /\ owned[last.cell].refs = 1 /\ NHandles(last.cell) = 1
    /\ count[last.cell] = 2 /\ disposal[last.cell].freed = 0

\* After a downcast that failed with UnexpectedType the access of the cell
\* tells the guards that are alive and nothing else: no reader or writer is
\* left over, and the cell is taken only if its interior was moved out.
C35_NothingHeld ==
    last.err = "UnexpectedType" =>
        LET c == last.cell IN
        /\ access[c].readers = NShared(c)
        /\ access[c].writer = (NExclusive(c) > 0)
        /\ access[c].taken = Moved(c)
        /\ fault = "none"

\* The step of a downcast that fails with UnexpectedType leaves the access,
\* the interior and the guards of the cell as they were, so whatever borrow or
\* take was possible through another clone before is possible after.
C35_FailedDowncastSteps ==
    \A c \in Cells :
        (last'.err = "UnexpectedType" /\ last'.cell = c) =>
            /\ access'[c] = access[c]
            /\ ~is_taken(access'[c])
            /\ data'[c] = data[c]
            /\ disposal'[c].moved = disposal[c].moved
            /\ owned'[c] = owned[c]
            /\ NShared(c)' = NShared(c) /\ NExclusive(c)' = NExclusive(c)
            /\ shared(access'[c]).ok = shared(access[c]).ok
            /\ exclusive(access'[c]).ok = exclusive(access[c]).ok
            /\ take_access(access'[c]).ok = take_access(access[c]).ok
            /\ last'.op \in {"downcast_borrow_ref", "downcast_borrow_mut"} =>
                  (handles' = handles /\ count' = count)
            /\ last'.op \in {"take_downcast", "downcast_owned_ref", "downcast_owned_mut"} =>
                  (NHandles(c)' = NHandles(c) - 1 /\ count'[c] = count[c] - 1)

\* C35: a downcast that fails with UnexpectedType leaves the access state of
\* the cell exactly as it was before the call: take_downcast gives back the
\* access it took, keeps the interior and does not leave the cell taken, and
\* the borrowing and owning downcasts give back the guard they acquired.
C35_FailedDowncastRestores == []C35_NothingHeld /\ [][C35_FailedDowncastSteps]_vars

\* A take_downcast for the wrong type has consumed one of two clones; the cell
\* is free again for the clone that is left.
C35_Witness ==
    /\ last.op = "take_downcast" /\ last.err = "UnexpectedType"
    /\ NHandles(last.cell) = 1 /\ count[last.cell] = 1
    /\ access[last.cell] = AccessNew /\ disposal[last.cell].moved = 0

RECURSIVE LiteralBytes(_)
LiteralBytes(chars) ==
    IF chars = <<>> THEN <<>>
    ELSE IF Head(chars) = 92
    THEN << parse_byte_escape(Tail(chars)).byte >>
             \o LiteralBytes(parse_byte_escape(Tail(chars)).rest)
    ELSE Utf8(Head(chars)) \o LiteralBytes(Tail(chars))

\* C37: a text that resolves gives the bytes of the source between b" and ";
\* on the escaped path every character outside an escape sequence contributes
\* its UTF-8 bytes, as it does on the unescaped path, and is not cut down to
\* the low eight bits of its code point.
C37_EscapedKeepsUtf8 ==
    (esc.done /\ esc.out.ok) =>
        esc.out.bytes = IF esc.escaped THEN LiteralBytes(esc.chars) ELSE as_bytes(esc.chars)

\* What holds: the two paths agree on the characters outside escape sequences
\* when these are ASCII.
C37_AsciiKeepsBytes ==
    (esc.done /\ esc.out.ok /\ \A i \in 1..Len(esc.chars) : esc.chars[i] < 128) =>
        esc.out.bytes = IF esc.escaped THEN LiteralBytes(esc.chars) ELSE as_bytes(esc.chars)

\* The node of expression e at the place at.
RECURSIVE NodeAt(_, _)
NodeAt(e, at) ==
    IF at = <<>> THEN e
    ELSE CASE Head(at) = "lhs" -> NodeAt(e.lhs, Tail(at))
           [] Head(at) = "rhs" -> NodeAt(e.rhs, Tail(at))
           [] Head(at) = "expr" -> NodeAt(e.expr, Tail(at))
           [] Head(at) = "target" -> NodeAt(e.target, Tail(at))
           [] Head(at) = "index" -> NodeAt(e.index, Tail(at))

\* The local an instruction with an offset is meant for: the path a Copy was
\* compiled from, the lhs of the assignment a Replace or XAssign was.
Addressed(inst) ==
    LET node == NodeAt(comp.expr, inst.span.at) IN
    IF inst.op = "Copy" THEN node.first ELSE node.lhs.first

\* C38: the slots the compiler counts are the values the code has on the
\* stack.  Wherever the compile of a sub-expression begins, the frame holds
\* the locals the expression was entered with plus one value for every
\* anonymous slot declared since, so the number of slots equals the height of
\* the stack the code emitted so far leaves; and every Copy, Replace and
\* XAssign carries the offset of a named local of the frame, the innermost
\* one of the name it was compiled for, never that of a temporary.
C38_SlotsTrackStack ==
    comp.done =>
        LET frame == Flatten(comp.before.scopes)
            asm == comp.after.asm IN
        /\ \A i \in 1..Len(comp.after.entered) :
              LET entry == comp.after.entered[i] IN
              /\ entry.slots = Len(frame) + Depth(SubSeq(asm, 1, entry.code))
              /\ SelfContained(SubSeq(asm, 1, entry.code))
        /\ \A k \in 1..Len(asm) :
              asm[k].op \in {"Copy", "Replace"} \cup CompoundOps =>
                  LET offset == asm[k].arg[1] IN
                  /\ offset < Len(frame)
                  /\ frame[offset + 1] = Addressed(asm[k])
                  /\ {offset} = Innermost(comp.before.scopes, Addressed(asm[k]))

\* (x + 1).a = x[1] in the inner block: the x of the target is compiled with
\* two temporaries, the value and the key, below it and is still copied from
\* the inner x, slot 3.
C38_Witness ==
    /\ Compiled /\ Len(comp.before.scopes) = 2
    /\ comp.expr.kind = "ExprBinary" /\ comp.expr.op = "Assign"
    /\ comp.expr.lhs.kind = "ExprFieldAccess" /\ comp.expr.lhs.field = "Ident"
    /\ comp.expr.lhs.expr.kind = "ExprBinary"
    /\ comp.expr.rhs.kind = "ExprIndexGet"
    /\ \E i \in 1..Len(comp.after.entered) :
          /\ comp.after.entered[i].slots = Len(Flatten(comp.before.scopes)) + 2
          /\ comp.after.entered[i].at = <<"lhs", "expr", "lhs">>
          /\ NodeAt(comp.expr, comp.after.entered[i].at) = Px
    /\ \E k \in 1..Len(comp.after.asm) :
          /\ comp.after.asm[k].op = "Copy" /\ comp.after.asm[k].arg = <<3>>
          /\ comp.after.asm[k].span.at = <<"lhs", "expr", "lhs">>

\* A box whose strong count is zero and whose cell is not taken has no guard
\* left on it and is exclusively accessible.
C39_NoGuardAtZero ==
    \A c \in Cells :
        (disposal[c].made /\ count[c] = 0 /\ ~is_taken(access[c])) =>
            /\ NShared(c) = 0
            /\ NExclusive(c) = 0
            /\ is_exclusive(access[c])

\* The drop of an owned guard that gives back the last strong reference finds
\* the access the guard held already released: the interior is dropped and no
\* assertion fails.
C39_OwnedDropSteps ==
    \A c \in Cells :
        (/\ last'.op \in {"drop_owned_ref", "drop_owned_mut"}
         /\ last'.cell = c
         /\ count[c] = 1) =>
            /\ count'[c] = 0
            /\ fault' = fault
            /\ is_exclusive(access'[c])
            /\ disposal'[c].dropped = disposal[c].dropped + 1

\* C39: whenever the strong count of a box reaches zero and the cell is not
\* taken, no shared or exclusive guard on it is live, so the debug assertion
\* of the final drop, that the cell is exclusively accessible, holds: an
\* owned guard releases its access before it gives back its strong reference.
C39_FinalDropIsExclusive ==
    /\ [](fault # "debug_assert" /\ C39_NoGuardAtZero)
    /\ [][C39_OwnedDropSteps]_vars

\* An OwnedRef was the last strong reference to a cell that was not taken:
\* its drop released the shared access, then freed the box and dropped the
\* interior.
C39_Witness ==
    \E c \in Cells :
        /\ last.op = "drop_owned_ref" /\ last.cell = c
        /\ count[c] = 0 /\ ~is_taken(access[c])
        /\ disposal[c].freed = 1 /\ disposal[c].dropped = 1
        /\ fault = "none"

====
